---- MODULE Spec2Model ----
(***************************************************************************)
(* TubeDrop: the download orchestration layer over the external engine.    *)
(*                                                                         *)
(* YouTubeDownloader (src/src/core/downloader.py), BatchDownloader         *)
(* (src/src/core/extras.py) and the GUI worker (src/src/gui/main_window.py)*)
(* are modelled as one worker thread whose position is pc, plus a user     *)
(* thread that may raise the cancellation flag at any moment.  The engine  *)
(* (yt-dlp) is external: every engine call is a pair of steps, the call    *)
(* and its completion, and the completion picks the engine's outcome.      *)
(*                                                                         *)
(* Further specifications follow the parts that run on their own: the      *)
(* progress hook, _build_download_options, SettingsManager                 *)
(* (src/src/utils/helpers.py), the command line of src/main.py, the        *)
(* maintenance and report calls of FileManager and QualityAnalyzer         *)
(* (src/src/core/extras.py), and download_playlist called twice.           *)
(***************************************************************************)
EXTENDS Integers, Sequences, FiniteSets, TLC

\* Longest list of entries a collection resolves to.
MaxEntries == 3

\* Identifiers of remote items are 1..MaxId.
MaxId == 2

\* Longest URL list handed to BatchDownloader.download_from_list.
MaxUrls == 2

\* Most events the engine delivers to a progress hook.
MaxHookEvents == 3

\* Most calls made one after the other on one YouTubeDownloader.
MaxCalls == 2

\* Most _build_download_options calls made in one process.
MaxBuilds == 2

\* Most SettingsManager.set calls made on one settings path.
MaxSets == 2

\* Most directories below base_path when clean_empty_folders is called.
MaxDirs == 3

\* Most files below base_path when clean_temp_files is called.
MaxFiles == 3

\* Most paths below base_path when get_quality_report is called.
MaxAudio == 2

\* Most paths below base_path when get_storage_info is called.
MaxPaths == 3

VARIABLES
    pc,               \* position of the worker thread
    op,               \* entry point the worker was started from
    url,              \* the url argument of the running operation
    is_downloading,   \* YouTubeDownloader.is_downloading
    cancel_download,  \* YouTubeDownloader.cancel_download
    world_entries,    \* entries the engine resolves the collection URL to
    world_title,      \* title the engine resolves the collection URL to
    folder_exists,    \* whether output_path / safe_title exists
    folder,           \* the *.info.json files directly in that folder
    skip_existing,    \* the skip_existing argument
    info,             \* playlist_info of the running download_playlist
    urls_to_download, \* candidate list of the running download_playlist
    idx,              \* loop position in urls_to_download
    ret,              \* return value of the last finished operation
    escaped,          \* an exception left the last finished operation
    search_results,   \* return value of search_videos
    downloaded_ids,   \* return value of the last _get_downloaded_ids
    scans,            \* number of _get_downloaded_ids calls made
    scan_raised,      \* the last _get_downloaded_ids call raised
    calls,            \* engine download calls made so far, in order
    raised,           \* an engine download call raised
    failed,           \* an engine download call failed without raising
    lookup,           \* outcome of the last engine extract_info call
    cancelAt,         \* where the worker was at the latest cancel request
    urls,             \* BatchDownloader: the urls argument
    callback,         \* BatchDownloader: the progress_callback argument
    is_running,       \* BatchDownloader.is_running
    current_index,    \* BatchDownloader.current_index
    results,          \* BatchDownloader.results
    events,           \* progress events the batch callback received
    batch_info,       \* info of the URL the batch is processing
    stopAt,           \* where the worker was at the first stop() request
    gui_is_downloading, \* YouTubeDownloaderGUI.is_downloading
    posted,           \* _download_finished call queued with root.after
    shown,            \* dialog _download_finished has shown
    other_files,      \* the *.info.json files outside the target folder
    progress_hook,    \* YouTubeDownloader.progress_hook and its callback
    total_files,      \* ProgressHook.total_files
    completed_files,  \* ProgressHook.completed_files
    forwarded,        \* records the hook's callback received, in order
    hook_events,      \* events the engine delivered to the hook so far
    reentries,        \* calls made on the downloader after its first one
    earlier,          \* result and engine calls of each call that came before
    shared_extract_audio, \* DEFAULT_DOWNLOAD_CONFIG['postprocessors'][0]
    built,            \* the _build_download_options calls made, with results
    settings_file,    \* what the settings path holds
    settings,         \* SettingsManager.settings of the live manager
    set_key,          \* key of the latest set call
    set_value,        \* value of the latest set call
    save_result,      \* outcome of the latest save_settings call
    st_phase,         \* the latest calls: loaded, set, saved, reloaded
    sets,             \* number of set calls made
    exit_code,        \* exit status of the main.py process
    cli_stage,        \* how far main.py got before it exited
    interrupted,      \* KeyboardInterrupt was raised in main's try block
    fs,               \* FileManager: what lies under base_path now
    fs0,              \* FileManager: what lay under base_path at the call
    todo,             \* FileManager: paths the running loop has yet to visit
    deleted_count,    \* deleted_count of the running clean_* call
    organized_count,  \* organized_count of the running organize_by_date
    files_analyzed,   \* files_analyzed of the running get_quality_report
    total_duration,   \* total_duration of the running get_quality_report
    quality_distribution, \* quality_distribution of get_quality_report
    report            \* what the latest report call returned or raised

\* The collection, its target folder and the skip_existing argument.
worldVars == <<world_entries, world_title, folder_exists, folder, skip_existing>>

\* Locals and results of the YouTubeDownloader methods.
dlVars == <<info, urls_to_download, idx, ret, escaped, search_results,
            downloaded_ids, scans, scan_raised, calls, raised, failed, lookup>>

batchVars == <<urls, callback, is_running, current_index, results, events,
               batch_info, stopAt>>

guiVars == <<gui_is_downloading, posted, shown>>

hookVars == <<progress_hook, total_files, completed_files, forwarded,
              hook_events, reentries, earlier>>

\* State of the parts a specification may leave out.
optionVars == <<shared_extract_audio, built>>

settingsVars == <<settings_file, settings, set_key, set_value, save_result,
                  st_phase, sets>>

cliVars == <<exit_code, cli_stage, interrupted>>

reportVars == <<files_analyzed, total_duration, quality_distribution, report>>

fileVars == <<fs, fs0, todo, deleted_count, organized_count, reportVars>>

auxVars == <<other_files, optionVars, settingsVars, cliVars, fileVars>>

vars == <<pc, op, url, is_downloading, cancel_download, cancelAt, worldVars,
          dlVars, batchVars, guiVars, hookVars, auxVars>>

(***************************************************************************)
(* Values                                                                  *)
(***************************************************************************)

\* A null entry of a collection (an unavailable item).
Null == 0

Ids == 1..MaxId

\* Sequences over S of length at most n.
BoundedSeq(S, n) == UNION {[1..k -> S] : k \in 0..n}

EntrySeqs == BoundedSeq(Ids \cup {Null}, MaxEntries)

\* The *.info.json files a folder can hold, by what json.load makes of them:
\* unparseable text, valid JSON that is not an object, an object without
\* "id", an object with "id".
Sidecars ==
    [kind : {"text", "nonobj", "noid"}, id : {Null}] \cup [kind : {"id"}, id : Ids]

\* "P" resolves to a collection, "V" to a single item.
Urls == {"P", "V"}

\* Urls and a text that is no YouTube URL.
AllUrls == Urls \cup {"X"}

\* The part of each URL the patterns of is_valid_youtube_url look at.
UrlShape == [P |-> "youtube.com/playlist?list=", V |-> "youtube.com/watch?v=",
             X |-> "example.com/"]

\* is_valid_youtube_url: re.match against the six patterns.
IsValidYoutubeUrl(u) ==
    UrlShape[u] \in {"youtube.com/watch?v=", "youtube.com/playlist?list=",
                     "youtu.be/", "youtube.com/channel/", "youtube.com/c/",
                     "youtube.com/@"}

NoInfo == [kind |-> "none", entries |-> <<>>, title |-> ""]

\* What extract_info yields for a URL when it yields anything.
WorldInfo(u) ==
    IF u = "P" THEN [kind |-> "playlist", entries |-> world_entries,
                     title |-> world_title]
               ELSE [kind |-> "video", entries |-> <<>>, title |-> "Song"]

\* extract_info: returns the info, returns None, or raises.
LookupOutcomes == {"info", "none", "raise"}

\* download: completes, completes with the item's error suppressed
\* (ignoreerrors), or raises.
DownloadOutcomes == {"ok", "err", "raise"}

ItemCall(id) == [target |-> "watch", id |-> id]
UrlCall(u) == [target |-> u, id |-> Null]

NoCancel == [pc |-> "never", n |-> 0]

(***************************************************************************)
(* YouTubeDownloader: pure parts                                           *)
(***************************************************************************)

GetVideoInfo_uncaught(u, o) ==
    IF o = "raise" THEN [exc |-> TRUE, value |-> NoInfo]
    ELSE [exc |-> FALSE, value |-> IF o = "none" THEN NoInfo ELSE WorldInfo(u)]

\* get_video_info: the engine's info, None when the engine raises.
GetVideoInfo(u, o) ==
    IF o = "raise" THEN [exc |-> FALSE, value |-> NoInfo]
    ELSE [exc |-> FALSE, value |-> IF o = "none" THEN NoInfo ELSE WorldInfo(u)]

\* search_videos: the entries of the engine's result; [] when the engine
\* raises, and when it returns None (None.get raises inside the try).
SearchVideos(o, found) ==
    IF o = "info" THEN [exc |-> FALSE, value |-> found]
    ELSE [exc |-> FALSE, value |-> <<>>]

\* download_single_video: True unless the engine call raised.  The files
\* of the item go to output_path itself, which no scan reads.
DownloadSingleVideoResult(o) ==
    [exc |-> FALSE, value |-> IF o = "raise" THEN "False" ELSE "True"]

\* The exception reading one sidecar raises, by its content: json.load on
\* unparseable text, data.get on a value that is no dict.
SidecarException(f) ==
    CASE f.kind = "text" -> "JSONDecodeError"
      [] f.kind = "nonobj" -> "AttributeError"
      [] OTHER -> "none"

\* except (json.JSONDecodeError, KeyError, FileNotFoundError)
ScanCatches(e) == e \in {"JSONDecodeError", "KeyError", "FileNotFoundError"}

RECURSIVE ScanFiles(_, _)
ScanFiles(files, ids) ==
    IF files = {} THEN [exc |-> FALSE, ids |-> ids]
    ELSE LET f == CHOOSE x \in files : TRUE
             e == SidecarException(f)
         IN  IF e = "none"
             THEN ScanFiles(files \ {f},
                            IF f.kind = "id" /\ f.id # Null THEN ids \cup {f.id} ELSE ids)
             ELSE IF ScanCatches(e) THEN ScanFiles(files \ {f}, ids)
             ELSE [exc |-> TRUE, ids |-> {}]

\* _get_downloaded_ids
GetDownloadedIds(exists, files) ==
    IF ~exists THEN [exc |-> FALSE, ids |-> {}] ELSE ScanFiles(files, {})

\* Where a sidecar can lie besides the target folder: the output root, a
\* subfolder of the target folder, another collection's folder.
OtherDirs == {"root", "sub", "other"}

\* All sidecars under the output root, each with the directory it lies in.
Tree(direct, others) ==
    {[dir |-> "target", kind |-> f.kind, id |-> f.id] : f \in direct} \cup others

\* The titles a collection can carry; "" stands for an info without the
\* key 'title'.
Titles == {"Mix", "NA", "a/b", ""}

\* playlist_info.get('title', 'Playlist')
PlaylistTitle(inf) == IF inf.title = "" THEN "Playlist" ELSE inf.title

\* yt_dlp.utils.sanitize_filename: characters a file name cannot hold are
\* replaced.
SanitizeFilename(text) == IF text = "a/b" THEN "a_b" ELSE text

\* What the engine extracts for the URL of one item: a watch URL names
\* the item and no collection.
ItemInfo(id) == [id |-> id, playlist_title |-> ""]

\* The engine's expansion of %(playlist_title)s in the output template:
\* the sanitized value of the field, NA for a field the info lacks.
ExpandPlaylistTitle(item) ==
    IF item.playlist_title = "" THEN "NA" ELSE SanitizeFilename(item.playlist_title)

\* The directory below output_path the engine writes the files of an item
\* to under the playlist-mode template, "target" when it is the folder
\* output_path / safe_title that download_playlist scans.
ItemFolder(inf, item) ==
    IF ExpandPlaylistTitle(item) = SanitizeFilename(PlaylistTitle(inf))
    THEN "target"
    ELSE ExpandPlaylistTitle(item)

\* writeinfojson: the engine writes the sidecar of an item into a
\* directory.  What the scanned folder holds afterwards; a sidecar written
\* anywhere else is in no directory that a scan reads.
WriteSidecar(exists, direct, dir, id) ==
    IF dir = "target"
    THEN [exists |-> TRUE, folder |-> direct \cup {[kind |-> "id", id |-> id]}]
    ELSE [exists |-> exists, folder |-> direct]

\* Whether the engine got as far as writing the sidecar: always when the
\* download completed, possibly when it failed later on.
SidecarWritten(o) == IF o = "ok" THEN {TRUE} ELSE BOOLEAN

\* folder_path.glob("*.info.json"): the direct children of the target folder.
GlobInfoJson(tree) ==
    {[kind |-> f.kind, id |-> f.id] : f \in {g \in tree : g.dir = "target"}}

\* len([e for e in entries if e])
CountEntries(entries) == Len(SelectSeq(entries, LAMBDA e : e # Null))

ProgressHookCall_countsFirst(cb, total, completed, status) ==
    [completed_files |-> IF status = "downloading" THEN completed + 1 ELSE completed,
     sent |-> IF cb THEN <<[status |-> status, total_files |-> total,
                            completed_files |-> completed]>>
                    ELSE <<>>]

\* ProgressHook.__call__: the new completed_files and the records handed to
\* the callback; events other than downloading and finished do nothing.
ProgressHookCall(cb, total, completed, status) ==
    CASE status = "downloading" ->
            [completed_files |-> completed,
             sent |-> IF cb THEN <<[status |-> "downloading", total_files |-> total,
                                    completed_files |-> completed]>>
                            ELSE <<>>]
      [] status = "finished" ->
            [completed_files |-> completed + 1,
             sent |-> IF cb THEN <<[status |-> "finished", total_files |-> total,
                                    completed_files |-> completed + 1]>>
                            ELSE <<>>]
      [] OTHER -> [completed_files |-> completed, sent |-> <<>>]

\* config.py: the keys of AUDIO_FORMATS and the table VIDEO_FORMATS.
AUDIO_FORMATS == {"mp3", "flac", "wav", "m4a", "ogg"}

VIDEO_FORMATS ==
    [f \in {"mp4", "webm", "mkv", "avi"} |-> "best[ext=" \o f \o "]"]

\* The FFmpegExtractAudio entry of DEFAULT_DOWNLOAD_CONFIG as the module
\* defines it.
DefaultExtractAudio ==
    [key |-> "FFmpegExtractAudio", preferredcodec |-> "mp3",
     preferredquality |-> "192"]

\* A post-processor entry that has only a key.
PostProcessor(k) == [key |-> k, preferredcodec |-> "", preferredquality |-> ""]

\* _build_download_options: the options it returns and what it leaves in the
\* FFmpegExtractAudio entry of the shared default.  DEFAULT_DOWNLOAD_CONFIG
\* .copy() is shallow, so options['postprocessors'][0] is that very entry.
BuildDownloadOptions(output_format, quality, output_path, playlist_mode, hook, extract_audio) ==
    LET audio == output_format \in AUDIO_FORMATS
        video == output_format \in DOMAIN VIDEO_FORMATS
        first == IF audio
                 THEN [extract_audio EXCEPT !.preferredcodec = output_format,
                                            !.preferredquality = quality]
                 ELSE extract_audio
    IN  [options |->
            [outtmpl |-> IF output_path = "" THEN "downloads/%(uploader)s/%(title)s.%(ext)s"
                         ELSE IF playlist_mode
                              THEN output_path \o "/%(playlist_title)s/%(title)s.%(ext)s"
                              ELSE output_path \o "/%(title)s.%(ext)s",
             format |-> IF video THEN VIDEO_FORMATS[output_format] ELSE "bestaudio/best",
             postprocessors |->
                 IF video
                 THEN <<PostProcessor("EmbedThumbnail"), PostProcessor("FFmpegMetadata")>>
                 ELSE <<first, PostProcessor("EmbedThumbnail"),
                        PostProcessor("FFmpegMetadata")>>,
             progress_hooks |-> hook],
         extract_audio |-> first]

(***************************************************************************)
(* helpers.py: JSON files and SettingsManager                              *)
(***************************************************************************)

\* Python values handed to SettingsManager.set, by their repr: a str, a bool,
\* an int, None, a list, a tuple, a set.
PyValues == {"'dark'", "False", "7", "None", "[1, 2]", "(1, 2)", "{1, 2}"}

\* json.dump raises TypeError on a value it has no encoding for.
JsonSerializable(v) == v # "{1, 2}"

\* What json.load returns for what json.dump wrote for v: a tuple is
\* written as an array and read back as a list.
JsonRoundTrip(v) == IF v = "(1, 2)" THEN "[1, 2]" ELSE v

\* default_settings of SettingsManager._load_settings
DefaultSettings ==
    [download_path |-> "'~/Downloads/YouTube'", default_format |-> "'mp3'",
     default_quality |-> "'192'", skip_existing |-> "True",
     create_playlist_folders |-> "True", embed_thumbnails |-> "True",
     save_metadata |-> "True", max_concurrent_downloads |-> "3",
     theme |-> "'clam'"]

MissingFile == [state |-> "missing", doc |-> <<>>]

CorruptFile == [state |-> "corrupt", doc |-> <<>>]

DocFile(d) == [state |-> "doc", doc |-> d]

\* load_json_file: the parsed document, None (kept as "none") when the file
\* is missing or does not parse.
LoadJsonFile(file) ==
    IF file.state = "doc" THEN [none |-> FALSE, doc |-> file.doc]
    ELSE [none |-> TRUE, doc |-> <<>>]

LoadSettings_defaultsWin(file) ==
    LET saved == LoadJsonFile(file)
    IN  IF saved.none \/ DOMAIN saved.doc = {}
        THEN DefaultSettings
        ELSE [k \in DOMAIN DefaultSettings \cup DOMAIN saved.doc |->
                 IF k \in DOMAIN DefaultSettings THEN DefaultSettings[k]
                                                 ELSE saved.doc[k]]

\* SettingsManager._load_settings: if saved_settings:
\* default_settings.update(saved_settings)
LoadSettings(file) ==
    LET saved == LoadJsonFile(file)
    IN  IF saved.none \/ DOMAIN saved.doc = {}
        THEN DefaultSettings
        ELSE [k \in DOMAIN DefaultSettings \cup DOMAIN saved.doc |->
                 IF k \in DOMAIN saved.doc THEN saved.doc[k]
                                           ELSE DefaultSettings[k]]

\* The outcomes of save_json_file's file operations when the data can be
\* encoded: written; mkdir or open fails; the write fails after open has
\* truncated the file.
WriteOutcomes == {"ok", "open_fails", "write_fails"}

\* save_json_file: result and file.  A TypeError from json.dump is not
\* among the exceptions it catches and leaves a partly written file.
SaveJsonFile(data, file, o) ==
    IF \E k \in DOMAIN data : ~JsonSerializable(data[k])
    THEN IF o = "open_fails" THEN [result |-> "False", file |-> file]
                             ELSE [result |-> "TypeError", file |-> CorruptFile]
    ELSE CASE o = "ok" ->
                [result |-> "True",
                 file |-> DocFile([k \in DOMAIN data |-> JsonRoundTrip(data[k])])]
           [] o = "open_fails" -> [result |-> "False", file |-> file]
           [] OTHER -> [result |-> "False", file |-> CorruptFile]

\* The candidate loop of download_playlist.
Candidates(entries, skip, ids) ==
    SelectSeq(entries, LAMBDA e : e # Null /\ (~skip \/ e \notin ids))

PlaylistPlan_scanFirst(inf, skip, exists, files) ==
    LET scan == IF skip THEN GetDownloadedIds(exists, files)
                        ELSE [exc |-> FALSE, ids |-> {}]
        cands == Candidates(inf.entries, skip, scan.ids)
    IN  [scans |-> IF skip THEN 1 ELSE 0,
         scan  |-> scan,
         urls  |-> IF inf = NoInfo \/ scan.exc THEN <<>> ELSE cands,
         next  |-> IF scan.exc \/ inf = NoInfo THEN "False"
                   ELSE IF cands = <<>> THEN "True" ELSE "loop"]

\* download_playlist from the return of its info lookup to the start of
\* its download loop: "False" and "True" are returns, "loop" enters the loop.
PlaylistPlan(inf, skip, exists, files) ==
    IF inf = NoInfo
    THEN [scans |-> 0, scan |-> [exc |-> FALSE, ids |-> {}], urls |-> <<>>,
          next |-> "False"]
    ELSE LET scan == IF skip THEN GetDownloadedIds(exists, files)
                             ELSE [exc |-> FALSE, ids |-> {}]
             cands == Candidates(inf.entries, skip, scan.ids)
         IN  IF scan.exc
             THEN [scans |-> 1, scan |-> scan, urls |-> <<>>, next |-> "False"]
             ELSE [scans |-> IF skip THEN 1 ELSE 0, scan |-> scan, urls |-> cands,
                   next |-> IF cands = <<>> THEN "True" ELSE "loop"]

LoopBreaks_never(cancel) == FALSE

\* if self.cancel_download: break
LoopBreaks(cancel) == cancel

\* return not self.cancel_download
PlaylistResult(cancel) == IF cancel THEN "False" ELSE "True"

(***************************************************************************)
(* The worker thread: YouTubeDownloader                                    *)
(***************************************************************************)

\* Where control goes when download_playlist / download_single_video return:
\* back into the batch loop, into the GUI worker, or to the direct caller.
ReturnPc ==
    CASE op = "batch" -> "b_after"
      [] op = "gui" -> "g_post"
      [] op = "cli" -> "c_after"
      [] OTHER -> "done"

Return_noFinally(value) ==
    /\ ret' = value
    /\ pc' = ReturnPc
    /\ UNCHANGED is_downloading

\* return value; finally: self.is_downloading = False
Return(value) ==
    /\ ret' = value
    /\ is_downloading' = FALSE
    /\ pc' = ReturnPc

\* download_playlist, try: is_downloading = True; cancel_download = False;
\* then the info lookup starts.
DP_Enter ==
    /\ pc = "pl_entry"
    /\ is_downloading' = TRUE
    /\ cancel_download' = FALSE
    /\ pc' = "pl_info"
    /\ UNCHANGED <<op, url, cancelAt, worldVars, dlVars, batchVars, guiVars>>
    /\ UNCHANGED <<hookVars, auxVars>>

\* The info lookup returns; title, progress totals, scan and candidate list.
DP_InfoDone ==
    /\ pc = "pl_info"
    /\ \E o \in LookupOutcomes :
        LET r == GetVideoInfo(url, o)
            plan == PlaylistPlan(r.value, skip_existing, folder_exists,
                                 GlobInfoJson(Tree(folder, other_files)))
        IN  /\ lookup' = o
            /\ info' = r.value
            /\ scans' = scans + plan.scans
            /\ scan_raised' = plan.scan.exc
            /\ downloaded_ids' = plan.scan.ids
            /\ urls_to_download' = plan.urls
            /\ idx' = 1
            /\ IF r.exc
               THEN Return("False")
               ELSE IF plan.next = "loop"
                    THEN /\ pc' = "pl_check"
                         /\ UNCHANGED <<ret, is_downloading>>
                    ELSE Return(plan.next)
            /\ IF progress_hook # "none" /\ r.value # NoInfo
               THEN /\ total_files' = CountEntries(r.value.entries)
                    /\ completed_files' = 0
               ELSE UNCHANGED <<total_files, completed_files>>
    /\ UNCHANGED <<op, url, cancel_download, cancelAt, worldVars, escaped,
                   search_results, calls, raised, failed, batchVars, guiVars>>
    /\ UNCHANGED <<progress_hook, forwarded, hook_events, reentries, earlier,
                   auxVars>>

\* for url_to_download in urls_to_download: if self.cancel_download: break
DP_Check ==
    /\ pc = "pl_check"
    /\ pc' = IF idx > Len(urls_to_download) \/ LoopBreaks(cancel_download)
             THEN "pl_ret" ELSE "pl_call"
    /\ UNCHANGED <<op, url, is_downloading, cancel_download, cancelAt, worldVars,
                   dlVars, batchVars, guiVars>>
    /\ UNCHANGED <<hookVars, auxVars>>

\* ydl.download([url_to_download]) is invoked
DP_Call ==
    /\ pc = "pl_call"
    /\ calls' = Append(calls, ItemCall(urls_to_download[idx]))
    /\ pc' = "pl_wait"
    /\ UNCHANGED <<op, url, is_downloading, cancel_download, cancelAt, worldVars,
                   info, urls_to_download, idx, ret, escaped, search_results,
                   downloaded_ids, scans, scan_raised, raised, failed, lookup,
                   batchVars, guiVars>>
    /\ UNCHANGED <<hookVars, auxVars>>

\* ydl.download returns or raises; a raise leaves the loop through
\* except Exception: return False.
DP_DownloadDone ==
    /\ pc = "pl_wait"
    /\ \E o \in DownloadOutcomes :
        /\ IF o = "raise"
           THEN /\ raised' = TRUE
                /\ Return("False")
                /\ UNCHANGED <<idx, failed>>
           ELSE /\ idx' = idx + 1
                /\ failed' = (failed \/ o = "err")
                /\ pc' = "pl_check"
                /\ UNCHANGED <<ret, is_downloading, raised>>
        /\ \E written \in SidecarWritten(o) :
              IF written
              THEN LET id == urls_to_download[idx]
                       w == WriteSidecar(folder_exists, folder,
                                         ItemFolder(info, ItemInfo(id)), id)
                   IN  /\ folder_exists' = w.exists
                       /\ folder' = w.folder
              ELSE UNCHANGED <<folder_exists, folder>>
    /\ UNCHANGED <<op, url, cancel_download, cancelAt, world_entries,
                   world_title, skip_existing, info, urls_to_download, escaped,
                   search_results, downloaded_ids, scans, scan_raised, calls,
                   lookup, batchVars, guiVars>>
    /\ UNCHANGED <<hookVars, auxVars>>

\* return not self.cancel_download
DP_Ret ==
    /\ pc = "pl_ret"
    /\ Return(PlaylistResult(cancel_download))
    /\ UNCHANGED <<op, url, cancel_download, cancelAt, worldVars, info,
                   urls_to_download, idx, escaped, search_results,
                   downloaded_ids, scans, scan_raised, calls, raised, failed,
                   lookup, batchVars, guiVars>>
    /\ UNCHANGED <<hookVars, auxVars>>

\* download_single_video up to the engine call
DS_Enter ==
    /\ pc = "sv_entry"
    /\ is_downloading' = TRUE
    /\ cancel_download' = FALSE
    /\ calls' = Append(calls, UrlCall(url))
    /\ pc' = "sv_wait"
    /\ UNCHANGED <<op, url, cancelAt, worldVars, info, urls_to_download, idx,
                   ret, escaped, search_results, downloaded_ids, scans,
                   scan_raised, raised, failed, lookup, batchVars, guiVars>>
    /\ UNCHANGED <<hookVars, auxVars>>

\* the engine call of download_single_video returns or raises
DS_DownloadDone ==
    /\ pc = "sv_wait"
    /\ \E o \in DownloadOutcomes :
        LET r == DownloadSingleVideoResult(o)
        IN  /\ raised' = (raised \/ o = "raise")
            /\ failed' = (failed \/ o = "err")
            /\ escaped' = r.exc
            /\ Return(r.value)
    /\ UNCHANGED <<op, url, cancel_download, cancelAt, worldVars, info,
                   urls_to_download, idx, search_results, downloaded_ids,
                   scans, scan_raised, calls, lookup, batchVars, guiVars>>
    /\ UNCHANGED <<hookVars, auxVars>>

\* get_video_info called on its own
GI_Done ==
    /\ pc = "gi_wait"
    /\ \E o \in LookupOutcomes :
        LET r == GetVideoInfo(url, o)
        IN  /\ lookup' = o
            /\ info' = r.value
            /\ escaped' = r.exc
    /\ pc' = "done"
    /\ UNCHANGED <<op, url, is_downloading, cancel_download, cancelAt, worldVars,
                   urls_to_download, idx, ret, search_results, downloaded_ids,
                   scans, scan_raised, calls, raised, failed, batchVars, guiVars>>
    /\ UNCHANGED <<hookVars, auxVars>>

\* search_videos
SE_Done ==
    /\ pc = "se_wait"
    /\ \E o \in LookupOutcomes :
        LET r == SearchVideos(o, world_entries)
        IN  /\ lookup' = o
            /\ search_results' = r.value
            /\ escaped' = r.exc
    /\ pc' = "done"
    /\ UNCHANGED <<op, url, is_downloading, cancel_download, cancelAt, worldVars,
                   info, urls_to_download, idx, ret, downloaded_ids, scans,
                   scan_raised, calls, raised, failed, batchVars, guiVars>>
    /\ UNCHANGED <<hookVars, auxVars>>

\* self.cancel_download = True
RaiseCancel ==
    /\ cancel_download' = TRUE
    /\ cancelAt' = [pc |-> pc, n |-> Len(calls)]

\* cancel_current_download, from the user's thread
Cancel ==
    /\ pc # "done"
    /\ RaiseCancel
    /\ UNCHANGED <<pc, op, url, is_downloading, worldVars, dlVars, batchVars,
                   guiVars>>
    /\ UNCHANGED <<hookVars, auxVars>>

(***************************************************************************)
(* The worker thread: BatchDownloader.download_from_list                   *)
(***************************************************************************)

\* The record download_from_list appends for a URL.
ResultRecord(u, success, type) == [url |-> u, success |-> success, type |-> type]

ProgressEvent(i, u, status) == [current |-> i, url |-> u, status |-> status]

\* Whether the progress callback raises when called with this status.
CallbackRaises(cb, status) ==
    \/ cb = "raises"
    \/ cb = "raises_at_end" /\ status # "starting"

\* 'entries' in info
HasEntries(inf) == inf.kind = "playlist"

\* is_running = True; total_urls; current_index = 0; results = []
B_Enter ==
    /\ pc = "b_entry"
    /\ is_running' = TRUE
    /\ current_index' = 0
    /\ results' = <<>>
    /\ pc' = "b_loop"
    /\ UNCHANGED <<op, url, is_downloading, cancel_download, cancelAt, worldVars,
                   dlVars, urls, callback, events, batch_info, stopAt, guiVars>>
    /\ UNCHANGED <<hookVars, auxVars>>

\* Head of the loop: the next URL, the is_running check, the 'starting'
\* callback (outside the try: its exception leaves download_from_list), and
\* the info lookup is invoked.
B_Loop ==
    /\ pc = "b_loop"
    /\ IF current_index >= Len(urls) \/ ~is_running
       THEN /\ pc' = "b_ret"
            /\ UNCHANGED <<url, current_index, events, escaped>>
       ELSE /\ current_index' = current_index + 1
            /\ url' = urls[current_index + 1]
            /\ IF CallbackRaises(callback, "starting")
               THEN /\ escaped' = TRUE
                    /\ pc' = "done"
                    /\ UNCHANGED events
               ELSE /\ events' = IF callback = "none" THEN events
                                 ELSE Append(events,
                                        ProgressEvent(current_index + 1,
                                                      urls[current_index + 1],
                                                      "starting"))
                    /\ pc' = "b_info"
                    /\ UNCHANGED escaped
    /\ UNCHANGED <<op, is_downloading, cancel_download, cancelAt, worldVars, info,
                   urls_to_download, idx, ret, search_results, downloaded_ids,
                   scans, scan_raised, calls, raised, failed, lookup, urls,
                   callback, is_running, results, batch_info, stopAt, guiVars>>
    /\ UNCHANGED <<hookVars, auxVars>>

\* The info lookup returns: no info is recorded and the loop continues;
\* otherwise the URL goes to download_playlist or download_single_video.
B_InfoDone ==
    /\ pc = "b_info"
    /\ \E o \in LookupOutcomes :
        LET r == GetVideoInfo(url, o)
        IN  /\ lookup' = o
            /\ batch_info' = r.value
            /\ IF r.value = NoInfo
               THEN /\ results' = Append(results, ResultRecord(url, "False", "error"))
                    /\ pc' = "b_loop"
               ELSE /\ pc' = IF HasEntries(r.value) THEN "pl_entry" ELSE "sv_entry"
                    /\ UNCHANGED results
    /\ UNCHANGED <<op, url, is_downloading, cancel_download, cancelAt, worldVars,
                   info, urls_to_download, idx, ret, escaped, search_results,
                   downloaded_ids, scans, scan_raised, calls, raised, failed,
                   urls, callback, is_running, current_index, events, stopAt,
                   guiVars>>
    /\ UNCHANGED <<hookVars, auxVars>>

\* The download returned: its record is appended, then the 'completed' /
\* 'failed' callback runs inside the try, so its exception appends the
\* except clause's record as well.
B_After ==
    /\ pc = "b_after"
    /\ LET type == IF HasEntries(batch_info) THEN "playlist" ELSE "video"
           rec == ResultRecord(url, ret, type)
       IN  IF CallbackRaises(callback, "completed")
           THEN /\ results' = results \o <<rec, ResultRecord(url, "False", "error")>>
                /\ UNCHANGED events
           ELSE /\ results' = Append(results, rec)
                /\ events' = IF callback = "none" THEN events
                             ELSE Append(events,
                                    ProgressEvent(current_index, url,
                                        IF ret = "True" THEN "completed" ELSE "failed"))
    /\ pc' = "b_loop"
    /\ UNCHANGED <<op, url, is_downloading, cancel_download, cancelAt, worldVars,
                   dlVars, urls, callback, is_running, current_index, batch_info,
                   stopAt, guiVars>>
    /\ UNCHANGED <<hookVars, auxVars>>

\* self.is_running = False; return self.results
B_Ret ==
    /\ pc = "b_ret"
    /\ is_running' = FALSE
    /\ pc' = "done"
    /\ UNCHANGED <<op, url, is_downloading, cancel_download, cancelAt, worldVars,
                   dlVars, urls, callback, current_index, results, events,
                   batch_info, stopAt, guiVars>>
    /\ UNCHANGED <<hookVars, auxVars>>

\* BatchDownloader.stop, from the user's thread, while the batch runs
Stop ==
    /\ pc \notin {"b_entry", "done"}
    /\ is_running' = FALSE
    /\ RaiseCancel
    /\ stopAt' = IF stopAt.pc = "never" THEN [pc |-> pc, n |-> Len(calls)] ELSE stopAt
    /\ UNCHANGED <<pc, op, url, is_downloading, worldVars, dlVars, urls, callback,
                   current_index, results, events, batch_info, guiVars>>
    /\ UNCHANGED <<hookVars, auxVars>>

(***************************************************************************)
(* The GUI: YouTubeDownloaderGUI                                           *)
(***************************************************************************)

\* _start_download: while is_downloading it returns at once; a URL the
\* validator rejects is reported and nothing starts; with a valid URL and
\* folder the interface state changes and the worker thread starts.
G_Start ==
    /\ pc = "g_idle" \/ gui_is_downloading
    /\ IF gui_is_downloading
       THEN UNCHANGED <<url, gui_is_downloading, pc, shown>>
       ELSE \E u \in AllUrls :
              IF IsValidYoutubeUrl(u)
              THEN /\ url' = u
                   /\ gui_is_downloading' = TRUE
                   /\ pc' = "g_info"
                   /\ UNCHANGED shown
              ELSE /\ shown' = "invalid"
                   /\ UNCHANGED <<url, gui_is_downloading, pc>>
    /\ UNCHANGED <<op, is_downloading, cancel_download, cancelAt, worldVars,
                   dlVars, batchVars, posted>>
    /\ UNCHANGED <<hookVars, auxVars>>

\* _download_worker: is_playlist = info and 'entries' in info
G_InfoDone ==
    /\ pc = "g_info"
    /\ \E o \in LookupOutcomes :
        LET r == GetVideoInfo(url, o)
        IN  /\ lookup' = o
            /\ pc' = IF r.value # NoInfo /\ HasEntries(r.value)
                     THEN "pl_entry" ELSE "sv_entry"
    /\ UNCHANGED <<op, url, is_downloading, cancel_download, cancelAt, worldVars,
                   info, urls_to_download, idx, ret, escaped, search_results,
                   downloaded_ids, scans, scan_raised, calls, raised, failed,
                   batchVars, guiVars>>
    /\ UNCHANGED <<hookVars, auxVars>>

\* _download_worker: a call of its try block outside the downloader (the
\* reads of format_var and quality_var off the GUI thread) raises; the
\* except clause queues lambda: self._download_finished(False, str(e)).
G_WorkerRaise ==
    /\ pc = "g_info"
    /\ posted' = "exception"
    /\ pc' = "g_posted"
    /\ UNCHANGED <<op, url, is_downloading, cancel_download, cancelAt, worldVars,
                   dlVars, batchVars, gui_is_downloading, shown>>
    /\ UNCHANGED <<hookVars, auxVars>>

\* self.root.after(0, lambda: self._download_finished(success))
G_Post ==
    /\ pc = "g_post"
    /\ posted' = ret
    /\ pc' = "g_posted"
    /\ UNCHANGED <<op, url, is_downloading, cancel_download, cancelAt, worldVars,
                   dlVars, batchVars, gui_is_downloading, shown>>
    /\ UNCHANGED <<hookVars, auxVars>>

\* The dialog _download_finished shows for a result.
FinishedDialog(success) == IF success = "True" THEN "info" ELSE "error"

\* Whether a queued lambda gets to call _download_finished.  The lambda
\* of the except clause reads e, which the worker unbinds when the clause
\* ends: run after that, the lambda raises NameError; run before, it calls.
LambdaCalls(queued) == IF queued = "exception" THEN BOOLEAN ELSE {TRUE}

\* The queued lambda runs on the GUI thread: _download_finished, unless
\* the lambda raises first.
G_Finished ==
    /\ pc = "g_posted"
    /\ posted # "none"
    /\ \E called \in LambdaCalls(posted) :
          IF called
          THEN /\ gui_is_downloading' = FALSE
               /\ shown' = FinishedDialog(posted)
          ELSE UNCHANGED <<gui_is_downloading, shown>>
    /\ posted' = "none"
    /\ pc' = "done"
    /\ UNCHANGED <<op, url, is_downloading, cancel_download, cancelAt, worldVars,
                   dlVars, batchVars>>
    /\ UNCHANGED <<hookVars, auxVars>>

\* _cancel_download, on the GUI thread
G_Cancel ==
    /\ gui_is_downloading
    /\ RaiseCancel
    /\ UNCHANGED <<pc, op, url, is_downloading, worldVars, dlVars, batchVars,
                   guiVars>>
    /\ UNCHANGED <<hookVars, auxVars>>

(***************************************************************************)
(* Initial states                                                          *)
(***************************************************************************)

Fresh ==
    /\ is_downloading = FALSE
    /\ cancel_download = FALSE
    /\ info = NoInfo
    /\ urls_to_download = <<>>
    /\ idx = 1
    /\ ret = "none"
    /\ escaped = FALSE
    /\ search_results = <<>>
    /\ downloaded_ids = {}
    /\ scans = 0
    /\ scan_raised = FALSE
    /\ calls = <<>>
    /\ raised = FALSE
    /\ failed = FALSE
    /\ lookup = "none"
    /\ cancelAt = NoCancel

NoBatch ==
    /\ urls = <<>>
    /\ callback = "none"
    /\ is_running = FALSE
    /\ current_index = 0
    /\ results = <<>>
    /\ events = <<>>
    /\ batch_info = NoInfo
    /\ stopAt = NoCancel

NoGui ==
    /\ gui_is_downloading = FALSE
    /\ posted = "none"
    /\ shown = "none"

\* No progress callback was registered: progress_hook is None.
NoHook ==
    /\ progress_hook = "none"
    /\ total_files = 0
    /\ completed_files = 0
    /\ forwarded = <<>>
    /\ hook_events = 0
    /\ reentries = 0
    /\ earlier = <<>>

\* Nothing but the target folder holds sidecars.
NoOthers == other_files = {}

\* No options were built yet: the shared default is as config.py defines it.
NoOptions ==
    /\ shared_extract_audio = DefaultExtractAudio
    /\ built = <<>>

\* No SettingsManager exists and no settings file was written.
NoSettings ==
    /\ settings_file = MissingFile
    /\ settings = DefaultSettings
    /\ set_key = "theme"
    /\ set_value = "'clam'"
    /\ save_result = "none"
    /\ st_phase = "loaded"
    /\ sets = 0

\* main.py is not the running program.
NoCli ==
    /\ exit_code = -1
    /\ cli_stage = "none"
    /\ interrupted = FALSE

\* A dict without keys.
EmptyDict == [k \in {} |-> 0]

\* No report call has returned.
NoResult == [kind |-> "none"]

\* The locals of get_quality_report as it sets them before its loop.
NoReport ==
    /\ files_analyzed = 0
    /\ total_duration = 0
    /\ quality_distribution = EmptyDict
    /\ report = NoResult

\* No FileManager call is running.
NoFiles ==
    /\ fs = {}
    /\ fs0 = {}
    /\ todo = {}
    /\ deleted_count = 0
    /\ organized_count = 0
    /\ NoReport

NoAux ==
    /\ NoOthers
    /\ NoOptions
    /\ NoSettings
    /\ NoCli
    /\ NoFiles

\* The target folder does not exist yet; skip_existing has its default.
NoFolder ==
    /\ folder_exists = FALSE
    /\ folder = {}
    /\ skip_existing = TRUE

\* The target folder of the collection and the skip_existing argument.
AnyFolder ==
    \/ /\ skip_existing = TRUE
       /\ folder_exists = TRUE
       /\ folder \in SUBSET Sidecars
    \/ /\ skip_existing \in BOOLEAN
       /\ folder_exists = FALSE
       /\ folder = {}

InitPlaylist ==
    /\ op = "playlist"
    /\ pc = "pl_entry"
    /\ url = "P"
    /\ world_entries \in EntrySeqs
    /\ world_title = "Mix"
    /\ AnyFolder

InitSingle ==
    /\ op = "single"
    /\ pc = "sv_entry"
    /\ url \in Urls
    /\ world_entries = <<>>
    /\ world_title = "Mix"
    /\ NoFolder

InitInfo ==
    /\ op = "info"
    /\ pc = "gi_wait"
    /\ url \in Urls
    /\ world_entries \in EntrySeqs
    /\ world_title = "Mix"
    /\ NoFolder

InitSearch ==
    /\ op = "search"
    /\ pc = "se_wait"
    /\ url = "V"
    /\ world_entries \in EntrySeqs
    /\ world_title = "Mix"
    /\ NoFolder

(***************************************************************************)
(* Spec: one call on a YouTubeDownloader, with a concurrent canceller      *)
(***************************************************************************)

Init ==
    /\ Fresh
    /\ NoHook
    /\ NoAux
    /\ NoBatch
    /\ NoGui
    /\ InitPlaylist \/ InitSingle \/ InitInfo \/ InitSearch

Next ==
    \/ DP_Enter
    \/ DP_InfoDone
    \/ DP_Check
    \/ DP_Call
    \/ DP_DownloadDone
    \/ DP_Ret
    \/ DS_Enter
    \/ DS_DownloadDone
    \/ GI_Done
    \/ SE_Done
    \/ Cancel

Spec == Init /\ [][Next]_vars

(***************************************************************************)
(* SpecBatch: one download_from_list call, with a concurrent stop()        *)
(***************************************************************************)

\* The collections a batch meets: the identifiers 1..k in order.
BatchEntrySeqs == {[i \in 1..k |-> i] : k \in 0..MaxId}

InitBatch ==
    /\ Fresh
    /\ NoHook
    /\ NoAux
    /\ NoGui
    /\ op = "batch"
    /\ pc = "b_entry"
    /\ url = "V"
    /\ urls \in BoundedSeq(AllUrls, MaxUrls)
    /\ callback \in {"none", "ok", "raises", "raises_at_end"}
    /\ is_running = FALSE
    /\ current_index = 0
    /\ results = <<>>
    /\ events = <<>>
    /\ batch_info = NoInfo
    /\ stopAt = NoCancel
    /\ world_entries \in BatchEntrySeqs
    /\ world_title = "Mix"
    /\ \/ NoFolder
       \/ /\ skip_existing = TRUE
          /\ folder_exists = TRUE
          /\ folder \in {{[kind |-> "id", id |-> 1]}, {[kind |-> "nonobj", id |-> Null]}}

NextBatch ==
    \/ B_Enter
    \/ B_Loop
    \/ B_InfoDone
    \/ B_After
    \/ B_Ret
    \/ Stop
    \/ DP_Enter
    \/ DP_InfoDone
    \/ DP_Check
    \/ DP_Call
    \/ DP_DownloadDone
    \/ DP_Ret
    \/ DS_Enter
    \/ DS_DownloadDone

SpecBatch == InitBatch /\ [][NextBatch]_vars

(***************************************************************************)
(* SpecGui: one download started from the window, with the cancel button   *)
(***************************************************************************)

InitGui ==
    /\ Fresh
    /\ NoHook
    /\ NoAux
    /\ NoBatch
    /\ NoGui
    /\ op = "gui"
    /\ pc = "g_idle"
    /\ url = "V"
    /\ world_entries \in EntrySeqs
    /\ world_title = "Mix"
    /\ NoFolder

NextGui ==
    \/ G_Start
    \/ G_InfoDone
    \/ G_WorkerRaise
    \/ G_Post
    \/ G_Finished
    \/ G_Cancel
    \/ DP_Enter
    \/ DP_InfoDone
    \/ DP_Check
    \/ DP_Call
    \/ DP_DownloadDone
    \/ DP_Ret
    \/ DS_Enter
    \/ DS_DownloadDone

SpecGui == InitGui /\ [][NextGui]_vars

(***************************************************************************)
(* SpecScope: download_playlist with sidecars in other directories         *)
(***************************************************************************)

\* Sidecars carrying the identifiers S, all lying in directory d.
OthersIn(d, S) == {[dir |-> d, kind |-> "id", id |-> i] : i \in S}

InitScope ==
    /\ Fresh
    /\ NoBatch
    /\ NoGui
    /\ NoHook
    /\ op = "playlist"
    /\ pc = "pl_entry"
    /\ url = "P"
    /\ world_entries \in EntrySeqs
    /\ world_title = "Mix"
    /\ skip_existing \in BOOLEAN
    /\ folder_exists \in BOOLEAN
    /\ folder \in IF folder_exists
                  THEN SUBSET {f \in Sidecars : f.kind \in {"id", "nonobj"}}
                  ELSE {{}}
    /\ \E d \in OtherDirs, S \in SUBSET Ids :
          /\ d = "sub" => folder_exists
          /\ other_files = OthersIn(d, S)
    /\ NoOptions
    /\ NoSettings
    /\ NoCli
    /\ NoFiles

NextScope ==
    \/ DP_Enter
    \/ DP_InfoDone
    \/ DP_Check
    \/ DP_Call
    \/ DP_DownloadDone
    \/ DP_Ret

SpecScope == InitScope /\ [][NextScope]_vars

(***************************************************************************)
(* SpecHook: calls on one YouTubeDownloader with the engine's progress     *)
(* events                                                                  *)
(***************************************************************************)

\* The engine calls the hook in options['progress_hooks'] during a download.
H_Event(status) ==
    /\ pc \in {"pl_wait", "sv_wait"}
    /\ progress_hook # "none"
    /\ hook_events < MaxHookEvents
    /\ LET r == ProgressHookCall(progress_hook = "observed", total_files,
                                 completed_files, status)
       IN  /\ completed_files' = r.completed_files
           /\ forwarded' = forwarded \o r.sent
    /\ hook_events' = hook_events + 1
    /\ UNCHANGED <<pc, op, url, is_downloading, cancel_download, cancelAt,
                   worldVars, dlVars, batchVars, guiVars, progress_hook,
                   total_files, reentries, earlier, auxVars>>

H_Downloading == H_Event("downloading")

H_Finished == H_Event("finished")

H_Error == H_Event("error")

\* The caller makes its next call on the same downloader.
S_Again ==
    /\ pc = "done"
    /\ reentries + 1 < MaxCalls
    /\ reentries' = reentries + 1
    /\ earlier' = Append(earlier, [ret |-> ret, calls |-> Len(calls)])
    /\ \/ op' = "playlist" /\ url' = "P" /\ pc' = "pl_entry"
       \/ op' = "single" /\ url' = "V" /\ pc' = "sv_entry"
    /\ UNCHANGED <<is_downloading, cancel_download, cancelAt, worldVars, dlVars,
                   batchVars, guiVars, progress_hook, total_files,
                   completed_files, forwarded, hook_events, auxVars>>

\* The collections the hook is followed on: the identifiers 1..k in order,
\* and one with an unavailable entry.
HookEntrySeqs == BatchEntrySeqs \cup {<<Null, 1>>}

InitHook ==
    /\ Fresh
    /\ NoBatch
    /\ NoGui
    /\ NoAux
    /\ NoFolder
    /\ progress_hook \in {"none", "silent", "observed"}
    /\ total_files = 0
    /\ completed_files = 0
    /\ forwarded = <<>>
    /\ hook_events = 0
    /\ reentries = 0
    /\ earlier = <<>>
    /\ world_entries \in HookEntrySeqs
    /\ world_title = "Mix"
    /\ \/ op = "playlist" /\ url = "P" /\ pc = "pl_entry"
       \/ op = "single" /\ url = "V" /\ pc = "sv_entry"

NextHook ==
    \/ H_Downloading
    \/ H_Finished
    \/ H_Error
    \/ S_Again
    \/ DP_Enter
    \/ DP_InfoDone
    \/ DP_Check
    \/ DP_Call
    \/ DP_DownloadDone
    \/ DP_Ret
    \/ DS_Enter
    \/ DS_DownloadDone

SpecHook == InitHook /\ [][NextHook]_vars

(***************************************************************************)
(* SpecOptions: _build_download_options calls in one process               *)
(***************************************************************************)

\* Formats asked for: two audio, two video, one in neither table.
OptionFormats == {"mp3", "flac", "mp4", "webm", "xyz"}

OptionQualities == {"192", "best", "360p", "1080p"}

OptionPaths == {"", "out"}

\* The downloader is idle: no call is running on it.
Idle ==
    /\ Fresh
    /\ NoBatch
    /\ NoGui
    /\ NoFolder
    /\ url = "V"
    /\ world_entries = <<>>
    /\ world_title = "Mix"

BuildOptions ==
    /\ pc = "options"
    /\ Len(built) < MaxBuilds
    /\ \E f \in OptionFormats, q \in OptionQualities, path \in OptionPaths,
          pm \in BOOLEAN :
          LET r == BuildDownloadOptions(f, q, path, pm, progress_hook # "none",
                                        shared_extract_audio)
          IN  /\ built' = Append(built,
                      [output_format |-> f, quality |-> q, output_path |-> path,
                       playlist_mode |-> pm, options |-> r.options])
              /\ shared_extract_audio' = r.extract_audio
    /\ UNCHANGED <<pc, op, url, is_downloading, cancel_download, cancelAt,
                   worldVars, dlVars, batchVars, guiVars, hookVars, other_files,
                   settingsVars, cliVars, fileVars>>

InitOptions ==
    /\ Idle
    /\ NoOthers
    /\ NoOptions
    /\ NoSettings
    /\ NoCli
    /\ NoFiles
    /\ op = "options"
    /\ pc = "options"
    /\ progress_hook \in {"none", "observed"}
    /\ total_files = 0
    /\ completed_files = 0
    /\ forwarded = <<>>
    /\ hook_events = 0
    /\ reentries = 0
    /\ earlier = <<>>

NextOptions == BuildOptions

SpecOptions == InitOptions /\ [][NextOptions]_vars

(***************************************************************************)
(* SpecSettings: set, save_settings and fresh managers on one path         *)
(***************************************************************************)

\* Keys handed to set: two default keys and one that is no default.
SetKeys == {"theme", "skip_existing", "extra"}

\* What the path holds before the first manager: nothing, a file that does
\* not parse, an empty object, documents with some keys.
InitialFiles ==
    {MissingFile, CorruptFile, DocFile(<<>>), DocFile([extra |-> "'old'"]),
     DocFile([theme |-> "'alt'", legacy |-> "1"])}

\* The frame of every settings action.
SettingsFrame ==
    UNCHANGED <<pc, op, url, is_downloading, cancel_download, cancelAt,
                worldVars, dlVars, batchVars, guiVars, hookVars, other_files,
                optionVars, cliVars, fileVars>>

\* SettingsManager.set
ST_Set ==
    /\ pc = "settings"
    /\ sets < MaxSets
    /\ \E k \in SetKeys, v \in PyValues :
          /\ settings' = [j \in DOMAIN settings \cup {k} |->
                              IF j = k THEN v ELSE settings[j]]
          /\ set_key' = k
          /\ set_value' = v
    /\ sets' = sets + 1
    /\ st_phase' = "set"
    /\ UNCHANGED <<settings_file, save_result>>
    /\ SettingsFrame

\* SettingsManager.save_settings
ST_Save ==
    /\ pc = "settings"
    /\ st_phase \in {"loaded", "set"}
    /\ \E o \in WriteOutcomes :
          LET r == SaveJsonFile(settings, settings_file, o)
          IN  /\ save_result' = r.result
              /\ settings_file' = r.file
    /\ st_phase' = IF st_phase = "set" THEN "saved" ELSE "loaded"
    /\ UNCHANGED <<settings, set_key, set_value, sets>>
    /\ SettingsFrame

\* SettingsManager(settings_file): a fresh manager on the same path
ST_Reload ==
    /\ pc = "settings"
    /\ st_phase \in {"saved", "set"}
    /\ settings' = LoadSettings(settings_file)
    /\ st_phase' = IF st_phase = "saved" THEN "reloaded" ELSE "loaded"
    /\ UNCHANGED <<settings_file, set_key, set_value, save_result, sets>>
    /\ SettingsFrame

InitSettings ==
    /\ Idle
    /\ NoHook
    /\ NoOthers
    /\ NoOptions
    /\ NoCli
    /\ NoFiles
    /\ op = "settings"
    /\ pc = "settings"
    /\ settings_file \in InitialFiles
    /\ settings = LoadSettings(settings_file)
    /\ set_key = "theme"
    /\ set_value = "'clam'"
    /\ save_result = "none"
    /\ st_phase = "loaded"
    /\ sets = 0

NextSettings ==
    \/ ST_Set
    \/ ST_Save
    \/ ST_Reload

SpecSettings == InitSettings /\ [][NextSettings]_vars

(***************************************************************************)
(* SpecCli: one run of main.py --cli URL, with the user's interrupt        *)
(***************************************************************************)

ExitCode_zero(success) == 0

\* sys.exit(0 if success else 1)
ExitCode(success) == IF success = "True" THEN 0 ELSE 1

\* The frame of the steps of main.py that run outside YouTubeDownloader.
CliFrame ==
    UNCHANGED <<op, url, cancel_download, cancelAt, worldVars, info,
                urls_to_download, idx, escaped, search_results, downloaded_ids,
                scans, scan_raised, calls, raised, failed, batchVars, guiVars,
                total_files, completed_files, forwarded, hook_events, reentries,
                earlier, other_files, optionVars, settingsVars, fileVars, interrupted>>

\* The process ends with status code at stage.
Exit(code, stage) ==
    /\ exit_code' = code
    /\ cli_stage' = stage
    /\ pc' = "exited"

\* The imports at the head of main.py; except ImportError: sys.exit(1)
C_Import ==
    /\ pc = "c_import"
    /\ \/ /\ pc' = "c_main"
          /\ UNCHANGED <<exit_code, cli_stage>>
       \/ Exit(1, "import")
    /\ UNCHANGED <<is_downloading, ret, lookup, progress_hook>>
    /\ CliFrame

\* main enters its try block; run_cli_mode validates the URL, constructs the
\* downloader (mkdir may raise), registers its callback and starts the lookup.
C_Main ==
    /\ pc = "c_main"
    /\ IF ~IsValidYoutubeUrl(url)
       THEN /\ Exit(ExitCode("False"), "invalid")
            /\ UNCHANGED progress_hook
       ELSE \/ /\ Exit(1, "constructor")
               /\ UNCHANGED progress_hook
            \/ /\ progress_hook' = "observed"
               /\ pc' = "c_info"
               /\ UNCHANGED <<exit_code, cli_stage>>
    /\ UNCHANGED <<is_downloading, ret, lookup>>
    /\ CliFrame

\* info = downloader.get_video_info(url); if not info: return False
C_InfoDone ==
    /\ pc = "c_info"
    /\ \E o \in LookupOutcomes :
        LET r == GetVideoInfo(url, o)
        IN  /\ lookup' = o
            /\ IF r.value = NoInfo
               THEN Exit(ExitCode("False"), "noinfo")
               ELSE /\ pc' = IF HasEntries(r.value) THEN "pl_entry" ELSE "sv_entry"
                    /\ UNCHANGED <<exit_code, cli_stage>>
    /\ UNCHANGED <<is_downloading, ret, progress_hook>>
    /\ CliFrame

\* success is back from the download; return it; sys.exit(0 if success else 1)
C_After ==
    /\ pc = "c_after"
    /\ Exit(ExitCode(ret), "download")
    /\ UNCHANGED <<is_downloading, ret, lookup, progress_hook>>
    /\ CliFrame

\* Where main.py is inside the try block of main.
CliTryPcs ==
    {"c_main", "c_info", "c_after", "pl_entry", "pl_info", "pl_check", "pl_call",
     "pl_wait", "pl_ret", "sv_entry", "sv_wait"}

\* KeyboardInterrupt while the try block runs: it passes every except
\* Exception and finally clause on its way to main; sys.exit(0)
C_Interrupt ==
    /\ pc \in CliTryPcs
    /\ interrupted' = TRUE
    /\ Exit(0, cli_stage)
    /\ is_downloading' = FALSE
    /\ UNCHANGED <<op, url, cancel_download, cancelAt, worldVars, info,
                   urls_to_download, idx, ret, escaped, search_results,
                   downloaded_ids, scans, scan_raised, calls, raised, failed,
                   lookup, batchVars, guiVars, hookVars, other_files, optionVars,
                   settingsVars, fileVars>>

InitCli ==
    /\ Fresh
    /\ NoBatch
    /\ NoGui
    /\ NoHook
    /\ NoOthers
    /\ NoOptions
    /\ NoSettings
    /\ NoCli
    /\ NoFiles
    /\ op = "cli"
    /\ pc = "c_import"
    /\ url \in AllUrls
    /\ world_entries \in EntrySeqs
    /\ world_title = "Mix"
    /\ \/ NoFolder
       \/ /\ skip_existing = TRUE
          /\ folder_exists = TRUE
          /\ folder \in {{[kind |-> "id", id |-> 1]}, {[kind |-> "nonobj", id |-> Null]}}

NextCli ==
    \/ C_Import
    \/ C_Main
    \/ C_InfoDone
    \/ C_After
    \/ C_Interrupt
    \/ DP_Enter
    \/ DP_InfoDone
    \/ DP_Check
    \/ DP_Call
    \/ DP_DownloadDone
    \/ DP_Ret
    \/ DS_Enter
    \/ DS_DownloadDone

SpecCli == InitCli /\ [][NextCli]_vars

(***************************************************************************)
(* SpecEmpty: FileManager.clean_empty_folders                              *)
(***************************************************************************)

\* The directory base_path itself.
Root == 0

\* Directory trees below base_path: directories 1..n, parent[i] the
\* directory (or Root) that directory i lies in.
DirTrees ==
    UNION {{p \in [1..n -> 0..MaxDirs] : \A i \in 1..n : p[i] < i} : n \in 0..MaxDirs}

RECURSIVE Depth(_, _)
\* len(p.parts), counted from base_path
Depth(parent, i) == IF i = Root THEN 0 ELSE 1 + Depth(parent, parent[i])

\* The frame of every FileManager step.
FileFrame ==
    UNCHANGED <<op, url, is_downloading, cancel_download, cancelAt, worldVars,
                info, urls_to_download, idx, ret, search_results,
                downloaded_ids, scans, scan_raised, calls, raised, failed,
                lookup, batchVars, guiVars, hookVars, other_files, optionVars,
                settingsVars, cliVars, fs0, reportVars>>

NextFolders_anyOrder(parent, rest) == rest

\* sorted(..., key=lambda p: len(p.parts), reverse=True): the folders the
\* loop may visit next, those of the greatest depth among the ones left.
NextFolders(parent, rest) ==
    {i \in rest : \A j \in rest : Depth(parent, j) <= Depth(parent, i)}

\* not any(folder.iterdir())
IsEmptyFolder(tree, i) ==
    /\ i \notin tree.has_file
    /\ \A c \in tree.present \ {Root} : tree.parent[c] # i

\* One round of the loop of clean_empty_folders; after the last folder,
\* return deleted_count.
CE_Step ==
    /\ pc = "ce_loop"
    /\ IF todo = {}
       THEN /\ pc' = "ce_done"
            /\ UNCHANGED <<fs, todo, deleted_count>>
       ELSE \E i \in NextFolders(fs.parent, todo) :
               /\ todo' = todo \ {i}
               /\ pc' = pc
               /\ IF IsEmptyFolder(fs, i) /\ i \notin fs.locked
                  THEN /\ fs' = [fs EXCEPT !.present = @ \ {i}]
                       /\ deleted_count' = deleted_count + 1
                  ELSE UNCHANGED <<fs, deleted_count>>
    /\ UNCHANGED <<escaped, organized_count>>
    /\ FileFrame

\* A tree below base_path: which directories hold a regular file, and for
\* which the listing or rmdir raises OSError.
InitEmpty ==
    /\ Idle
    /\ NoHook
    /\ NoOthers
    /\ NoOptions
    /\ NoSettings
    /\ NoCli
    /\ op = "clean_empty_folders"
    /\ pc = "ce_loop"
    /\ \E p \in DirTrees :
         \E F \in SUBSET (DOMAIN p), L \in SUBSET (DOMAIN p) :
            fs = [parent |-> p, present |-> DOMAIN p \cup {Root}, has_file |-> F,
                  locked |-> L]
    /\ fs0 = fs
    /\ todo = DOMAIN fs.parent
    /\ deleted_count = 0
    /\ organized_count = 0
    /\ NoReport

NextEmpty == CE_Step

SpecEmpty == InitEmpty /\ [][NextEmpty]_vars

(***************************************************************************)
(* SpecTemp: FileManager.clean_temp_files                                  *)
(***************************************************************************)

\* temp_extensions, in the order the outer loop takes them
TempExtensions == <<".part", ".tmp", ".temp", ".ytdl">>

\* How the name of a path below base_path can end.
FileExts == {".part", ".tmp", ".temp", ".ytdl", ".mp3", ".json"}

\* What file_path.unlink() does for a path: removes it, or raises because
\* permission is denied or because the path is a directory.
UnlinkOutcomes == {"ok", "PermissionError", "IsADirectoryError"}

\* rglob(f'*{ext}'): the name ends with ext.
GlobMatches(ext, file) == file.ext = ext

CleanTempCatches_permissionOnly(e) == e = "PermissionError"

\* except (OSError, PermissionError): every subclass of OSError
CleanTempCatches(e) ==
    e \in {"OSError", "PermissionError", "IsADirectoryError", "FileNotFoundError"}

\* The position in temp_extensions the loops are at: the first extension
\* that a path still to be visited matches.
CurrentExtension(files, rest) ==
    CHOOSE k \in 1..Len(TempExtensions) :
        /\ \E i \in rest : GlobMatches(TempExtensions[k], files[i])
        /\ \A j \in 1..(k - 1) :
               \A i \in rest : ~GlobMatches(TempExtensions[j], files[i])

\* One round of the inner loop of clean_temp_files; after the last path,
\* return deleted_count.
CT_Step ==
    /\ pc = "ct_loop"
    /\ IF todo = {}
       THEN /\ pc' = "ct_done"
            /\ UNCHANGED <<fs, todo, deleted_count, escaped>>
       ELSE \E i \in todo :
               /\ GlobMatches(TempExtensions[CurrentExtension(fs.files, todo)],
                              fs.files[i])
               /\ todo' = todo \ {i}
               /\ IF fs.files[i].unlink = "ok"
                  THEN /\ fs' = [fs EXCEPT !.present = @ \ {i}]
                       /\ deleted_count' = deleted_count + 1
                       /\ UNCHANGED <<pc, escaped>>
                  ELSE /\ UNCHANGED <<fs, deleted_count>>
                       /\ IF CleanTempCatches(fs.files[i].unlink)
                          THEN UNCHANGED <<pc, escaped>>
                          ELSE /\ escaped' = TRUE
                               /\ pc' = "ct_done"
    /\ UNCHANGED organized_count
    /\ FileFrame

\* The paths below base_path, each with the end of its name and what
\* unlink does for it.
InitTemp ==
    /\ Idle
    /\ NoHook
    /\ NoOthers
    /\ NoOptions
    /\ NoSettings
    /\ NoCli
    /\ op = "clean_temp_files"
    /\ pc = "ct_loop"
    /\ \E files \in BoundedSeq([ext : FileExts, unlink : UnlinkOutcomes], MaxFiles) :
          fs = [files |-> files, present |-> DOMAIN files]
    /\ fs0 = fs
    /\ todo = {i \in DOMAIN fs.files :
                  \E k \in 1..Len(TempExtensions) :
                      GlobMatches(TempExtensions[k], fs.files[i])}
    /\ deleted_count = 0
    /\ organized_count = 0
    /\ NoReport

NextTemp == CT_Step

SpecTemp == InitTemp /\ [][NextTemp]_vars

(***************************************************************************)
(* SpecDate: FileManager.organize_by_date                                  *)
(***************************************************************************)

\* File names as their dot-separated parts: a sidecar, the media file and
\* the thumbnail of the same item, and a file of another item.
SidecarName == <<"song", "info", "json">>

MediaName == <<"song", "mp3">>

ThumbName == <<"song", "webp">>

OtherName == <<"talk", "mp3">>

\* Path.stem: the name without its last suffix.
Stem(name) == SubSeq(name, 1, Len(name) - 1)

\* Path.suffix: the last suffix of the name.
Suffix(name) == "." \o name[Len(name)]

\* parent.glob(f'{file_base}.*'): the name starts with file_base and a dot.
GlobStemDot(file_base, name) ==
    /\ Len(name) > Len(file_base)
    /\ SubSeq(name, 1, Len(file_base)) = file_base

\* rglob('*.info.json'): the name ends with .info.json.
IsInfoJson(name) ==
    /\ Len(name) >= 2
    /\ SubSeq(name, Len(name) - 1, Len(name)) = <<"info", "json">>

\* Directories under base_path: base_path itself, a subfolder, and the
\* folder base_path / year / month of a date.
BaseDir == [sub |-> "", date |-> <<>>]

SubDir == [sub |-> "sub", date |-> <<>>]

\* year = upload_date[:4]; month = upload_date[4:6]; base_path / year / month
DateFolder(upload_date) == [sub |-> "", date |-> SubSeq(upload_date, 1, 6)]

\* The upload_date a sidecar can carry, as its characters: eight digits,
\* four digits, none.
FullDate == <<2, 0, 2, 4, 0, 1, 1, 5>>

UploadDates == {FullDate, <<2, 0, 2, 4>>, <<>>}

File(dir, name, upload_date) ==
    [dir |-> dir, name |-> name, upload_date |-> upload_date]

\* new_path.exists()
ExistsAt(files, dir, name) == \E g \in files : g.dir = dir /\ g.name = name

\* What one round of the outer loop of organize_by_date does for sidecar s:
\* the files afterwards and the number of files it counted.
OrganizeOne(files, s) ==
    IF s \notin files \/ Len(s.upload_date) < 8
    THEN [files |-> files, counted |-> 0]
    ELSE LET date_folder == DateFolder(s.upload_date)
             related == {f \in files : f.dir = s.dir
                                       /\ GlobStemDot(Stem(s.name), f.name)}
             moved == {f \in related : Suffix(f.name) # ".info.json"
                                       /\ ~ExistsAt(files, date_folder, f.name)}
             after == (files \ moved)
                      \cup {[f EXCEPT !.dir = date_folder] : f \in moved}
         IN  [files |-> IF ExistsAt(after, date_folder, s.name)
                        THEN after
                        ELSE (after \ {s}) \cup {[s EXCEPT !.dir = date_folder]},
              counted |-> Cardinality(moved)]

\* One round of the outer loop of organize_by_date; after the last sidecar,
\* return organized_count.
OD_Step ==
    /\ pc = "od_loop"
    /\ IF todo = {}
       THEN /\ pc' = "od_done"
            /\ UNCHANGED <<fs, todo, organized_count>>
       ELSE \E s \in todo :
               LET r == OrganizeOne(fs, s)
               IN  /\ fs' = r.files
                   /\ organized_count' = organized_count + r.counted
                   /\ todo' = todo \ {s}
                   /\ pc' = pc
    /\ UNCHANGED <<escaped, deleted_count>>
    /\ FileFrame

\* One item's files in base_path or in a subfolder, with or without its
\* sidecar, and files that lie in the date folder already.
InitDate ==
    /\ Idle
    /\ NoHook
    /\ NoOthers
    /\ NoOptions
    /\ NoSettings
    /\ NoCli
    /\ op = "organize_by_date"
    /\ pc = "od_loop"
    /\ \E d \in {BaseDir, SubDir}, date \in UploadDates,
          here \in SUBSET {SidecarName, MediaName, ThumbName, OtherName},
          there \in SUBSET {SidecarName, MediaName, ThumbName} :
          fs = {File(d, n, IF n = SidecarName THEN date ELSE <<>>) : n \in here}
               \cup {File(DateFolder(FullDate), n,
                          IF n = SidecarName THEN FullDate ELSE <<>>) : n \in there}
    /\ fs0 = fs
    /\ todo = {f \in fs : IsInfoJson(f.name)}
    /\ deleted_count = 0
    /\ organized_count = 0
    /\ NoReport

NextDate == OD_Step

SpecDate == InitDate /\ [][NextDate]_vars

(***************************************************************************)
(* SpecPlaylist: one download_playlist call whose engine calls all end     *)
(***************************************************************************)

\* The steps of the thread that runs download_playlist.
PlaylistStep ==
    \/ DP_Enter
    \/ DP_InfoDone
    \/ DP_Check
    \/ DP_Call
    \/ DP_DownloadDone
    \/ DP_Ret

\* One collection and one target folder: a readable sidecar of item 1 and
\* a sidecar that json.load does not turn into an object.
InitOnePlaylist ==
    /\ Fresh
    /\ NoHook
    /\ NoAux
    /\ NoBatch
    /\ NoGui
    /\ op = "playlist"
    /\ pc = "pl_entry"
    /\ url = "P"
    /\ world_entries \in HookEntrySeqs
    /\ world_title = "Mix"
    /\ skip_existing \in BOOLEAN
    /\ folder_exists \in BOOLEAN
    /\ folder \in IF folder_exists
                  THEN SUBSET {[kind |-> "id", id |-> 1],
                               [kind |-> "nonobj", id |-> Null]}
                  ELSE {{}}

NextPlaylist ==
    \/ PlaylistStep
    \/ Cancel

\* The thread keeps running, and every engine call returns or raises.
SpecPlaylist ==
    InitOnePlaylist /\ [][NextPlaylist]_vars /\ WF_vars(PlaylistStep)

(***************************************************************************)
(* SpecRerun: download_playlist called again with the same arguments       *)
(***************************************************************************)

\* The caller repeats its download_playlist call.
R_Again ==
    /\ S_Again
    /\ op' = "playlist"

InitRerun ==
    /\ Fresh
    /\ NoHook
    /\ NoAux
    /\ NoBatch
    /\ NoGui
    /\ op = "playlist"
    /\ pc = "pl_entry"
    /\ url = "P"
    /\ world_entries \in HookEntrySeqs \ {<<>>}
    /\ world_title \in Titles
    /\ skip_existing \in BOOLEAN
    /\ folder_exists \in BOOLEAN
    /\ folder \in IF folder_exists
                  THEN SUBSET {[kind |-> "id", id |-> 1],
                               [kind |-> "nonobj", id |-> Null]}
                  ELSE {{}}

NextRerun ==
    \/ PlaylistStep
    \/ R_Again

SpecRerun == InitRerun /\ [][NextRerun]_vars

(***************************************************************************)
(* SpecQuality: QualityAnalyzer.get_quality_report                         *)
(***************************************************************************)

\* audio_extensions
AudioExtensions == {".mp3", ".flac", ".wav", ".m4a", ".ogg"}

\* How the name of a path below base_path can end.
QualitySuffixes == {".mp3", ".MP3", ".txt"}

\* str.lower() on those suffixes
Lower(suffix) == IF suffix = ".MP3" THEN ".mp3" ELSE suffix

\* The bitrates and lengths the tags of a file can carry.
Bitrates == {0, 127, 128, 192, 256, 320}

Durations == {1, 2}

\* A path below base_path: the end of its name and what mutagen finds in
\* it: File() returns None, File() raises, or it returns the tags.
QualityFiles ==
    [suffix : QualitySuffixes, inspect : {"none", "raise"}, bitrate : {0},
     duration : {0}]
    \cup [suffix : QualitySuffixes, inspect : {"ok"}, bitrate : Bitrates,
          duration : Durations]

AnalyzeAudioQuality_countsFailed(file) ==
    [error |-> FALSE, duration |-> file.duration, bitrate |-> file.bitrate]

\* analyze_audio_quality: a dict with the key 'error' when File() returns
\* None or anything raises, the tags otherwise.
AnalyzeAudioQuality(file) ==
    IF file.inspect \in {"none", "raise"}
    THEN [error |-> TRUE, duration |-> 0, bitrate |-> 0]
    ELSE [error |-> FALSE, duration |-> file.duration, bitrate |-> file.bitrate]

\* The keys of quality_distribution, each as the pieces of its text.
VeryHighLabel == <<"Muy Alta ", "(", "320", "+", " kbps)">>

HighLabel == <<"Alta ", "(", "256", "+", " kbps)">>

GoodLabel == <<"Buena ", "(", "192", "+", " kbps)">>

StandardLabel == <<"Estandar ", "(", "128", "+", " kbps)">>

LowLabel == <<"Baja ", "(", "<", "128", " kbps)">>

\* The if/elif chain that classifies a positive bitrate.
QualityLabel(bitrate) ==
    IF bitrate >= 320 THEN VeryHighLabel
    ELSE IF bitrate >= 256 THEN HighLabel
    ELSE IF bitrate >= 192 THEN GoodLabel
    ELSE IF bitrate >= 128 THEN StandardLabel
    ELSE LowLabel

\* d.get(k, 0)
DictGet(d, k) == IF k \in DOMAIN d THEN d[k] ELSE 0

\* d[k] = d.get(k, 0) + 1
DictIncrement(d, k) ==
    [j \in DOMAIN d \cup {k} |-> IF j = k THEN DictGet(d, k) + 1 ELSE d[j]]

RECURSIVE StrSplit(_, _)
\* str.split(sep) on a text given as its pieces
StrSplit(text, sep) ==
    IF text = <<>>
    THEN << <<>> >>
    ELSE LET rest == StrSplit(Tail(text), sep)
         IN  IF Head(text) = sep
             THEN << <<>> >> \o rest
             ELSE << <<Head(text)>> \o Head(rest) >> \o Tail(rest)

\* The texts that int() converts.
Numerals == [t \in {"320", "256", "192", "128"} |->
                CASE t = "320" -> 320 [] t = "256" -> 256
                  [] t = "192" -> 192 [] t = "128" -> 128]

\* int(text): the number a numeral stands for, ValueError for other text.
PyInt(text) ==
    IF Len(text) = 1 /\ text[1] \in DOMAIN Numerals
    THEN [exc |-> "none", value |-> Numerals[text[1]]]
    ELSE [exc |-> "ValueError", value |-> 0]

\* int(k.split('(')[1].split('+')[0])
LabelThreshold(k) == PyInt(StrSplit(StrSplit(k, "(")[2], "+")[1])

RECURSIVE SumOver(_, _)
SumOver(f, keys) ==
    IF keys = {}
    THEN 0
    ELSE LET k == CHOOSE j \in keys : TRUE
         IN  f[k] + SumOver(f, keys \ {k})

\* max(files_analyzed, 1)
AtLeastOne(n) == IF n > 1 THEN n ELSE 1

\* The expression of the key 'average_bitrate': the true division as the
\* pair of its dividend and divisor, or the exception int() raises.
AverageBitrate(distribution, analyzed) ==
    LET keys == {k \in DOMAIN distribution : \E i \in DOMAIN k : k[i] = "("}
        weighted == [k \in keys |-> LabelThreshold(k).value * distribution[k]]
    IN  IF \E k \in keys : LabelThreshold(k).exc # "none"
        THEN [exc |-> "ValueError", value |-> <<0, 1>>]
        ELSE [exc |-> "none",
              value |-> <<SumOver(weighted, keys), AtLeastOne(analyzed)>>]

\* The frame of every QualityAnalyzer step.
QualityFrame ==
    UNCHANGED <<op, url, is_downloading, cancel_download, cancelAt, worldVars,
                info, urls_to_download, idx, ret, search_results,
                downloaded_ids, scans, scan_raised, calls, raised, failed,
                lookup, batchVars, guiVars, hookVars, other_files, optionVars,
                settingsVars, cliVars, fs, fs0, deleted_count, organized_count>>

\* One round of the loop of get_quality_report, for a path rglob yields.
QR_Step ==
    /\ pc = "qr_loop"
    /\ \E i \in todo :
          LET file == fs[i]
              analysis == AnalyzeAudioQuality(file)
          IN  /\ todo' = todo \ {i}
              /\ IF Lower(file.suffix) \in AudioExtensions /\ ~analysis.error
                 THEN /\ files_analyzed' = files_analyzed + 1
                      /\ total_duration' = total_duration + analysis.duration
                      /\ quality_distribution' =
                            IF analysis.bitrate > 0
                            THEN DictIncrement(quality_distribution,
                                               QualityLabel(analysis.bitrate))
                            ELSE quality_distribution
                 ELSE UNCHANGED <<files_analyzed, total_duration,
                                  quality_distribution>>
    /\ UNCHANGED <<pc, escaped, report>>
    /\ QualityFrame

\* The return statement of get_quality_report: the report, or the
\* exception that building it raises.
QR_Return ==
    /\ pc = "qr_loop"
    /\ todo = {}
    /\ pc' = "qr_done"
    /\ LET average == AverageBitrate(quality_distribution, files_analyzed)
       IN  IF average.exc = "none"
           THEN /\ report' =
                     [kind |-> "report",
                      files_analyzed |-> files_analyzed,
                      total_duration |-> total_duration,
                      total_duration_formatted |->
                          <<total_duration \div 3600,
                            (total_duration % 3600) \div 60>>,
                      quality_distribution |-> quality_distribution,
                      average_bitrate |-> average.value]
                /\ UNCHANGED escaped
           ELSE /\ report' = [kind |-> "raise", exc |-> average.exc]
                /\ escaped' = TRUE
    /\ UNCHANGED <<todo, files_analyzed, total_duration, quality_distribution>>
    /\ QualityFrame

\* The paths below base_path when get_quality_report is called.
InitQuality ==
    /\ Idle
    /\ NoHook
    /\ NoOthers
    /\ NoOptions
    /\ NoSettings
    /\ NoCli
    /\ op = "get_quality_report"
    /\ pc = "qr_loop"
    /\ fs \in BoundedSeq(QualityFiles, MaxAudio)
    /\ fs0 = fs
    /\ todo = DOMAIN fs
    /\ deleted_count = 0
    /\ organized_count = 0
    /\ NoReport

NextQuality ==
    \/ QR_Step
    \/ QR_Return

SpecQuality == InitQuality /\ [][NextQuality]_vars

(***************************************************************************)
(* SpecStorage: FileManager.get_storage_info                               *)
(***************************************************************************)

\* What rglob('*') yields below base_path: directories, and regular files
\* with the end of their name and their size in bytes.
StoragePaths ==
    [kind : {"dir"}, suffix : {""}, size : {0}]
    \cup [kind : {"file"}, suffix : {".mp3", ".MP3", ""}, size : {1, 2}]

\* p.is_file()
IsFile(p) == p.kind = "file"

\* p.is_dir()
IsDir(p) == p.kind = "dir"

RECURSIVE GetFolderSize(_, _)
\* helpers.get_folder_size: the sizes of the regular files, added up
GetFolderSize(paths, rest) ==
    IF rest = {}
    THEN 0
    ELSE LET i == CHOOSE j \in rest : TRUE
         IN  (IF IsFile(paths[i]) THEN paths[i].size ELSE 0)
             + GetFolderSize(paths, rest \ {i})

\* helpers.format_file_size for sizes below 1024, where its loop does not
\* run: "0 B", or the number with one decimal and the unit B.
FormatFileSize(size_bytes) ==
    IF size_bytes = 0
    THEN [number |-> 0, decimals |-> 0, unit |-> "B"]
    ELSE [number |-> size_bytes, decimals |-> 1, unit |-> "B"]

RECURSIVE CountExtensions(_, _, _)
\* The loop of get_storage_info over rglob('*'): extensions
CountExtensions(paths, rest, extensions) ==
    IF rest = {}
    THEN extensions
    ELSE LET i == CHOOSE j \in rest : TRUE
         IN  CountExtensions(paths, rest \ {i},
                             IF IsFile(paths[i])
                             THEN DictIncrement(extensions, Lower(paths[i].suffix))
                             ELSE extensions)

\* file_count = len(list(self.base_path.rglob('*')))
FileCount(paths) == Len(paths)

\* get_storage_info: the dict it returns.
GetStorageInfo(paths) ==
    [kind |-> "storage",
     total_size |-> GetFolderSize(paths, DOMAIN paths),
     total_size_formatted |-> FormatFileSize(GetFolderSize(paths, DOMAIN paths)),
     file_count |-> FileCount(paths),
     extensions |-> CountExtensions(paths, DOMAIN paths, EmptyDict),
     folder_count |-> Cardinality({i \in DOMAIN paths : IsDir(paths[i])})]

\* get_storage_info, from its call to its return.
SI_Return ==
    /\ pc = "si_call"
    /\ report' = GetStorageInfo(fs)
    /\ pc' = "si_done"
    /\ UNCHANGED <<escaped, todo, files_analyzed, total_duration,
                   quality_distribution>>
    /\ QualityFrame

InitStorage ==
    /\ Idle
    /\ NoHook
    /\ NoOthers
    /\ NoOptions
    /\ NoSettings
    /\ NoCli
    /\ op = "get_storage_info"
    /\ pc = "si_call"
    /\ fs \in BoundedSeq(StoragePaths, MaxPaths)
    /\ fs0 = fs
    /\ todo = {}
    /\ deleted_count = 0
    /\ organized_count = 0
    /\ NoReport

NextStorage == SI_Return

SpecStorage == InitStorage /\ [][NextStorage]_vars

(***************************************************************************)
(* Claims                                                                  *)
(***************************************************************************)

\* The identifiers of the sidecars that parse and carry an identifier.
ParsedIds(exists, files) ==
    IF exists THEN {f.id : f \in {g \in files : g.kind = "id"}} ELSE {}

\* One engine download call per element, in order.
ItemCalls(ids) == [i \in 1..Len(ids) |-> ItemCall(ids[i])]

\* The candidates the entries and the folder's readable sidecars determine.
ExpectedCandidates ==
    Candidates(world_entries, skip_existing, ParsedIds(folder_exists, folder))

Returned(o) == pc = "done" /\ op = o

\* The positions where an engine download is in flight.
TransferPcs == {"pl_wait", "sv_wait"}

\* C1: when cancel_current_download() is raised while candidate k of n is
\* being downloaded (k < n), the calls made stay exactly the first k
\* candidates from then on, and download_playlist returns False.
C1_CancelDuringItem ==
    (op = "playlist" /\ cancelAt.pc = "pl_wait" /\ cancelAt.n < Len(urls_to_download))
    => /\ calls = ItemCalls(SubSeq(urls_to_download, 1, cancelAt.n))
       /\ pc \in {"pl_wait", "pl_check", "pl_ret", "done"}
       /\ pc = "done" => ret = "False"

\* C1 witness: cancelled while item 2 of 3 was in flight, item 2 completed
\* without raising, the call returned False after 2 engine calls.
C1_Witness ==
    /\ Returned("playlist")
    /\ cancelAt = [pc |-> "pl_wait", n |-> 2]
    /\ Len(urls_to_download) = 3
    /\ ~raised
    /\ Len(calls) = 2
    /\ ret = "False"

\* C2: an uncancelled download_playlist whose engine calls do not raise makes
\* exactly one engine download call per non-null entry whose identifier is
\* not among the folder's readable sidecars (every non-null entry without
\* skip_existing), in the entries' order, and returns success.
C2_ExactCalls ==
    (Returned("playlist") /\ cancelAt = NoCancel /\ lookup = "info" /\ ~raised)
    => /\ calls = ItemCalls(ExpectedCandidates)
       /\ ret = "True"

\* C3: whenever the candidate list is empty (no non-null entry, or every
\* entry's identifier already has a sidecar in the folder under
\* skip_existing) download_playlist returns success with no engine download.
C3_EmptyCandidatesSucceed ==
    (Returned("playlist") /\ lookup = "info" /\ ExpectedCandidates = <<>>)
    => /\ ret = "True"
       /\ calls = <<>>

\* C4: once the download loop runs, the result is success unless a
\* cancellation was raised, and every candidate is passed to the engine
\* whatever happened to the earlier ones.
C4_FailureDoesNotAbort ==
    (Returned("playlist") /\ Len(calls) > 0 /\ cancelAt = NoCancel)
    => /\ ret = "True"
       /\ Len(calls) = Len(urls_to_download)

\* C5: when the info lookup of download_playlist yields no info the call
\* returns False, having made no directory scan and no engine download, and
\* is_downloading is False on return.
C5_NoInfoFails ==
    (Returned("playlist") /\ info = NoInfo)
    => /\ ret = "False"
       /\ scans = 0
       /\ calls = <<>>
       /\ ~is_downloading

\* C5 witness: the lookup raised for a call with skip_existing and a
\* non-empty folder.
C5_Witness ==
    /\ Returned("playlist")
    /\ lookup = "raise"
    /\ info = NoInfo
    /\ skip_existing
    /\ folder # {}
    /\ world_entries # <<>>

\* C8: no exception leaves the adapter; when the engine raises,
\* get_video_info returns None, search_videos returns [] and
\* download_single_video returns False; download_single_video returns True
\* exactly when the engine download call did not raise.
C8_AdapterNeverRaises ==
    /\ ~escaped
    /\ (Returned("info") /\ lookup = "raise") => info = NoInfo
    /\ (Returned("search") /\ lookup = "raise") => search_results = <<>>
    /\ Returned("single") => (ret = "True" <=> ~raised)
    /\ Returned("single") => ret \in {"True", "False"}

\* C8 witness: the engine raised in download_single_video, which returned
\* False.
C8_Witness ==
    /\ Returned("single")
    /\ raised
    /\ ret = "False"

\* C10: _get_downloaded_ids never raises and returns exactly the
\* identifiers of the sidecars that parse and carry one, whatever the other
\* sidecars hold.
C10_ScanNeverRaises ==
    scans > 0 => /\ ~scan_raised
                 /\ downloaded_ids = ParsedIds(folder_exists, folder)

\* C6: with stop() never called, download_from_list returns exactly one
\* record per input URL, in input order, and no exception leaves it.
C6_OneRecordPerUrl ==
    (Returned("batch") /\ stopAt = NoCancel)
    => /\ ~escaped
       /\ Len(results) = Len(urls)
       /\ \A i \in 1..Len(results) : results[i].url = urls[i]

\* C7: once stop() has been called during a running batch, no further
\* engine download is started.
C7_NoDownloadStartsAfterStop ==
    stopAt # NoCancel => Len(calls) = stopAt.n

\* C9: a cancellation raised while a download (single item or collection
\* item) is in flight, with no engine call raising, makes the operation
\* report non-success and is never shown as an error.
C9_CancellationIsNotAnError ==
    (Returned("gui") /\ cancelAt.pc \in TransferPcs /\ ~raised)
    => /\ ret = "False"
       /\ shown # "error"

\* C11: with skip_existing, once download_playlist has resolved the
\* collection, an entry is left out of the candidates exactly when a sidecar
\* lying directly in the collection's target folder carries its identifier,
\* whatever sidecars lie in other directories.
C11_DirectoryScopedSkip ==
    (op = "playlist" /\ skip_existing /\ lookup = "info"
        /\ pc \notin {"pl_entry", "pl_info"}) =>
        \A i \in 1..Len(world_entries) :
            world_entries[i] # Null =>
                ((\A j \in 1..Len(urls_to_download) :
                      urls_to_download[j] # world_entries[i])
                 <=> world_entries[i] \in ParsedIds(folder_exists, folder))

C13_QualityInSelection ==
    \A i, j \in 1..Len(built) :
        /\ (built[i].output_format \in DOMAIN VIDEO_FORMATS
             /\ built[j].output_format = built[i].output_format
             /\ built[j].quality # built[i].quality)
            => built[i].options.format # built[j].options.format
        /\ built[i].output_format \in DOMAIN VIDEO_FORMATS
            => \A k \in 1..Len(built[i].options.postprocessors) :
                   built[i].options.postprocessors[k].key # "FFmpegExtractAudio"

\* C14: every _build_download_options call returns what the first call of a
\* process returns for its arguments, and leaves the shared default as
\* config.py defines it.
C14_FreshPerCall ==
    /\ shared_extract_audio = DefaultExtractAudio
    /\ \A i \in 1..Len(built) :
           built[i].options =
               BuildDownloadOptions(built[i].output_format, built[i].quality,
                                    built[i].output_path, built[i].playlist_mode,
                                    progress_hook # "none",
                                    DefaultExtractAudio).options

\* What a fresh manager holds besides the key that was set: the default for
\* every default key the saved document lacks, and the saved value for every
\* saved key that is no default.
MergedWithFile ==
    /\ \A k \in DOMAIN DefaultSettings \ DOMAIN settings_file.doc :
           settings[k] = DefaultSettings[k]
    /\ \A k \in DOMAIN settings_file.doc \ DOMAIN DefaultSettings :
           k \in DOMAIN settings /\ settings[k] = settings_file.doc[k]

\* C15 as stated: after set(key, value), save_settings() and a fresh manager
\* on the same path, the manager holds that value for the key, whatever the
\* key and the value.
C15_RoundTripAnyValue ==
    st_phase = "reloaded" =>
        /\ set_key \in DOMAIN settings
        /\ settings[set_key] = set_value
        /\ MergedWithFile

\* C15, amended: when the value is one JSON stores unchanged and
\* save_settings() returned True, the fresh manager holds that value for the
\* key, the default for every default key the saved document lacks, and
\* every saved key that is no default unchanged.
C15_RoundTrip ==
    (st_phase = "reloaded" /\ save_result = "True"
        /\ JsonRoundTrip(set_value) = set_value) =>
        /\ set_key \in DOMAIN settings
        /\ settings[set_key] = set_value
        /\ MergedWithFile

\* A fresh manager read back a key that is no default next to a value set
\* for a default key, from a document that had come with a key of its own.
C15_Witness ==
    /\ st_phase = "reloaded"
    /\ save_result = "True"
    /\ set_key = "theme"
    /\ set_value = "'dark'"
    /\ settings["theme"] = "'dark'"
    /\ "legacy" \in DOMAIN settings
    /\ sets = 2

\* The positions where an engine call (info lookup or download) made for
\* the URL the caller passed in is in flight.
EnginePcs == {"b_info", "g_info", "c_info", "pl_info", "sv_wait", "gi_wait"}

\* C16: no engine call is in flight for a URL is_valid_youtube_url rejects.
C16_NoEngineCallForInvalidUrl ==
    pc \in EnginePcs => IsValidYoutubeUrl(url)

\* C17: the process exits with 0 after an interrupt; otherwise with 1 when
\* the imports failed, the URL was invalid, the downloader could not be
\* set up, no info was obtained or the download reported failure, and with
\* 0 when the download reported success.
C17_ExitCodes ==
    pc = "exited" =>
        exit_code = IF interrupted THEN 0
                    ELSE IF cli_stage = "download" /\ ret = "True" THEN 0
                    ELSE 1

\* A run ended with status 1 because an engine download call failed, and
\* not through an interrupt.
C17_Witness ==
    /\ pc = "exited"
    /\ ~interrupted
    /\ cli_stage = "download"
    /\ raised
    /\ ret = "False"
    /\ exit_code = 1

RECURSIVE Prunable(_, _)
\* Directory i holds no file and only directories of which the same is true.
Prunable(tree, i) ==
    /\ i \notin tree.has_file
    /\ \A c \in DOMAIN tree.parent : tree.parent[c] = i => Prunable(tree, c)

RECURSIVE PrunableUnrefused(_, _)
\* The same, and the system refuses neither its removal nor any below it.
PrunableUnrefused(tree, i) ==
    /\ i \notin tree.has_file
    /\ i \notin tree.locked
    /\ \A c \in DOMAIN tree.parent :
           tree.parent[c] = i => PrunableUnrefused(tree, c)

\* C18 as stated: when clean_empty_folders returns, the directories gone are
\* exactly those below base_path that were empty or held only directories
\* that were, the count is their number, and base_path is still there.
C18_PrunesEveryEmpty ==
    pc = "ce_done" =>
        /\ fs0.present \ fs.present = {i \in DOMAIN fs0.parent : Prunable(fs0, i)}
        /\ deleted_count = Cardinality(fs0.present \ fs.present)
        /\ Root \in fs.present

\* C18, amended: the directories gone are exactly those that were empty or
\* became empty through the pruning of their descendants and whose removal
\* raised no OS error; the count is their number; base_path is still there.
C18_PrunesEmptyUnrefused ==
    pc = "ce_done" =>
        /\ fs0.present \ fs.present =
               {i \in DOMAIN fs0.parent : PrunableUnrefused(fs0, i)}
        /\ deleted_count = Cardinality(fs0.present \ fs.present)
        /\ Root \in fs.present

\* root/a/b with a and b empty: the call removed b, then a, and returned 2,
\* next to a directory that holds a file and stayed.
C18_Witness ==
    /\ pc = "ce_done"
    /\ fs0.parent = <<Root, 1, Root>>
    /\ fs0.has_file = {3}
    /\ fs0.locked = {}
    /\ fs.present = {Root, 3}
    /\ deleted_count = 2

\* C20: clean_temp_files returns without raising; the paths gone are
\* exactly those with a transient suffix whose unlink raised nothing, every
\* other path is still there, and the count is the number of paths gone.
C20_CleanTempNeverAborts ==
    (op = "clean_temp_files" /\ pc = "ct_done") =>
        /\ ~escaped
        /\ \A i \in DOMAIN fs0.files :
               i \notin fs.present <=>
                   /\ fs0.files[i].ext \in {".part", ".tmp", ".temp", ".ytdl"}
                   /\ fs0.files[i].unlink = "ok"
        /\ deleted_count = Cardinality(fs0.present \ fs.present)

\* A call met a transient file it could not delete, deleted another
\* transient file after it, left a media file alone and returned 1.
C20_Witness ==
    /\ op = "clean_temp_files"
    /\ pc = "ct_done"
    /\ fs0.files = <<[ext |-> ".part", unlink |-> "PermissionError"],
                      [ext |-> ".ytdl", unlink |-> "ok"],
                      [ext |-> ".mp3", unlink |-> "ok"]>>
    /\ fs.present = {1, 3}
    /\ deleted_count = 1

\* C19: when organize_by_date returns, for every sidecar with an
\* eight-digit upload date, each file that lay in the sidecar's directory
\* under the same base name lies in base_path/year/month, unless a file of
\* its name lay there before, and then both are where they were.
C19_RelatedFilesMoved ==
    (op = "organize_by_date" /\ pc = "od_done") =>
        \A s \in fs0 :
            (IsInfoJson(s.name) /\ Len(s.upload_date) = 8) =>
                \A f \in fs0 :
                    (f.dir = s.dir /\ f.name[1] = s.name[1]) =>
                        LET dest == [sub |-> "", date |-> SubSeq(s.upload_date, 1, 6)]
                        IN  IF \E g \in fs0 : g.dir = dest /\ g.name = f.name
                            THEN f \in fs
                            ELSE /\ [f EXCEPT !.dir = dest] \in fs
                                 /\ f \notin fs

\* The paths of the call whose tags were read: audio files mutagen opened.
Inspected(paths) ==
    {i \in paths : fs0[i].suffix \in {".mp3", ".MP3"} /\ fs0[i].inspect = "ok"}

\* The threshold in the label of the band a positive bitrate falls in.
BandThreshold(bitrate) ==
    IF bitrate >= 320 THEN 320
    ELSE IF bitrate >= 256 THEN 256
    ELSE IF bitrate >= 192 THEN 192
    ELSE 128

RECURSIVE ThresholdSum(_)
ThresholdSum(paths) ==
    IF paths = {}
    THEN 0
    ELSE LET i == CHOOSE j \in paths : TRUE
         IN  BandThreshold(fs0[i].bitrate) + ThresholdSum(paths \ {i})

RECURSIVE DurationSum(_)
DurationSum(paths) ==
    IF paths = {}
    THEN 0
    ELSE LET i == CHOOSE j \in paths : TRUE
         IN  fs0[i].duration + DurationSum(paths \ {i})

\* C21: get_quality_report returns a report for every set of files, and
\* its average_bitrate is the sum, over the inspected files of positive
\* bitrate, of the threshold in the label of the file's band, divided by
\* max(files_analyzed, 1).
C21_AverageBitrate ==
    (op = "get_quality_report" /\ pc = "qr_done") =>
        /\ report.kind = "report"
        /\ report.average_bitrate =
              <<ThresholdSum({i \in Inspected(DOMAIN fs0) : fs0[i].bitrate > 0}),
                IF Inspected(DOMAIN fs0) = {}
                THEN 1
                ELSE Cardinality(Inspected(DOMAIN fs0))>>

\* The band of a positive bitrate: the first threshold it reaches.
ExpectedBand(bitrate) ==
    IF bitrate >= 320 THEN "320"
    ELSE IF bitrate >= 256 THEN "256"
    ELSE IF bitrate >= 192 THEN "192"
    ELSE IF bitrate >= 128 THEN "128"
    ELSE "<"

\* The band a key of quality_distribution stands for.
BandOfLabel(k) == k[3]

PlaylistState ==
    CASE pc = "pl_entry" -> "idle"
      [] pc = "pl_info" -> "resolving"
      [] pc \in {"pl_check", "pl_call", "pl_wait", "pl_ret"} -> "downloading"
      [] pc = "done" -> "terminal"

\* How a returned invocation ended.
PlaylistOutcome ==
    IF ret = "True" THEN "completed"
    ELSE IF lookup # "info" \/ scan_raised \/ raised THEN "failed"
    ELSE "cancelled"

\* While the call runs is_downloading is True; once it has returned
\* is_downloading is False, the result is a boolean, and a false result
\* that no failure explains follows a cancel request.
C23_FlagAndResult ==
    /\ PlaylistState \in {"resolving", "downloading"} => is_downloading
    /\ PlaylistState = "terminal" =>
          /\ ~is_downloading
          /\ ret \in {"True", "False"}
          /\ PlaylistOutcome = "completed" <=> ret = "True"
          /\ PlaylistOutcome = "cancelled" =>
                cancel_download /\ cancelAt # NoCancel

\* The order of the states: filtering happens within the step that ends
\* resolving; nothing follows the terminal state.
C23_Order ==
    PlaylistState' # PlaylistState =>
        \/ PlaylistState = "idle" /\ PlaylistState' = "resolving"
        \/ PlaylistState = "resolving" /\ PlaylistState' \in {"downloading", "terminal"}
        \/ PlaylistState = "downloading" /\ PlaylistState' = "terminal"

\* C23: an invocation of download_playlist goes idle, resolving,
\* downloading, terminal in this order and, when every engine call ends,
\* reaches the terminal state with exactly one of completed (True),
\* cancelled (False), failed (False); is_downloading is True from entry
\* to the return and False ever after.
C23_StateMachine ==
    /\ []C23_FlagAndResult
    /\ [][C23_Order]_vars
    /\ <>[](PlaylistState = "terminal")

\* Invocations that ended each way: failed because an engine download
\* raised, cancelled, completed.
C23_Witness ==
    /\ Returned("playlist")
    /\ Len(calls) = 2
    /\ PlaylistOutcome = "failed"
    /\ raised
    /\ ~is_downloading

\* C24: when download_playlist returns after every candidate was passed
\* to the engine and no engine call raised, the result is True, whether
\* or not cancel_current_download() was called while a candidate, the
\* last one included, was being downloaded.
C24_CancelDuringLastItem ==
    (/\ Returned("playlist")
     /\ cancelAt.pc \in {"never", "pl_wait"}
     /\ lookup = "info"
     /\ ~scan_raised
     /\ ~raised
     /\ Len(calls) = Len(urls_to_download))
    => ret = "True"

\* Where the GUI worker can be, before download_playlist returns, when
\* the user invokes cancel.
WorkerCancelPoints ==
    {"g_info", "pl_entry", "pl_info", "pl_check", "pl_call", "pl_wait", "pl_ret"}

\* C25: after the latest cancel the user invoked while the GUI worker
\* was anywhere before the return of download_playlist, its initial info
\* lookup included, the worker starts no engine download of an item,
\* except the one whose loop check had passed already, and when
\* download_playlist has returned from a non-empty candidate list its
\* result is False.
C25_CancelNeverLost ==
    (op = "gui" /\ cancelAt.pc \in WorkerCancelPoints /\ info # NoInfo) =>
        /\ Len(calls) <= cancelAt.n + (IF cancelAt.pc = "pl_call" THEN 1 ELSE 0)
        /\ (pc \in {"g_post", "g_posted", "done"} /\ urls_to_download # <<>>)
              => ret = "False"

\* C26: when download_playlist with skip_existing has run to its end
\* uncancelled, every engine download having completed, and is called
\* again with the same arguments, the second call passes no item to the
\* engine: the sidecars of the first call lie in the folder the second
\* call scans.
C26_RerunIdempotent ==
    (/\ op = "playlist"
     /\ pc = "done"
     /\ Len(earlier) = 1
     /\ skip_existing
     /\ earlier[1].ret = "True"
     /\ lookup = "info"
     /\ ~failed
     /\ ~raised)
    => Len(calls) = earlier[1].calls

\* C27: with a registered hook that has received at most one event, and
\* so at most one `finished` event, delivered while an item was being
\* downloaded, completed_files <= total_files holds in the hook and in
\* every record forwarded to the observer, whichever of
\* download_single_video and download_playlist made the download.
C27_CompletedWithinTotal ==
    (progress_hook # "none" /\ hook_events <= 1) =>
        /\ completed_files <= total_files
        /\ \A i \in DOMAIN forwarded :
              forwarded[i].completed_files <= forwarded[i].total_files

\* C28: in download_from_list with a progress callback that does not
\* raise, whenever the loop is between two URLs or has ended, the events
\* received are, for each URL started so far, its `starting` event
\* followed by exactly one `completed` or `failed` event for the same URL,
\* which is `completed` exactly when the URL's result record has
\* success=True.
C28_StartingThenOutcome ==
    (/\ op = "batch"
     /\ callback = "ok"
     /\ pc \in {"b_loop", "b_ret", "done"})
    => /\ Len(events) = 2 * current_index
       /\ \A i \in 1..current_index :
             /\ events[2 * i - 1] = ProgressEvent(i, urls[i], "starting")
             /\ events[2 * i].url = urls[i]
             /\ events[2 * i].status \in {"completed", "failed"}
             /\ events[2 * i].status = "completed" <=> results[i].success = "True"

\* C29: once a started worker has ended and the call it queued for the
\* GUI thread has run, _download_finished has set is_downloading back to
\* False and shown the result, on the success, failure and exception
\* paths of the worker.
C29_WorkerLeadsToFinished ==
    (op = "gui" /\ pc = "done") =>
        /\ ~gui_is_downloading
        /\ shown \in {"info", "error"}

\* C30: get_storage_info leaves the directory tree as it was, and the
\* file_count it returns is the number of regular files below the
\* directory, which is the sum of the counts per extension; directories
\* are counted in folder_count only.
C30_FileCountCountsFiles ==
    (op = "get_storage_info" /\ pc = "si_done") =>
        /\ fs = fs0
        /\ report.file_count = Cardinality({i \in DOMAIN fs0 : fs0[i].kind = "file"})
        /\ report.file_count = SumOver(report.extensions, DOMAIN report.extensions)
        /\ report.folder_count = Cardinality({i \in DOMAIN fs0 : fs0[i].kind = "dir"})

====
